---- MODULE Spec2Model ----
(***************************************************************************)
(* Rotation engine of lighter_aster_hedge.py: the persistent state machine *)
(* (StateManager), the supervisor loop (main / main_loop), the two-leg     *)
(* open and close procedures, the HOLDING monitor with stop-loss, and the  *)
(* start-up recovery (verify_and_recover_position).                        *)
(*                                                                         *)
(* Units: base sizes are integers counting 0.0001 of the base asset, PnL   *)
(* and position value are integers counting 0.0001 of the quote currency,  *)
(* so that every comparison of the source is exact integer arithmetic.     *)
(***************************************************************************)
EXTENDS Integers, Sequences, FiniteSets, TLC

VARIABLES
    pc,                 \* position of the process in main / main_loop ("stopped": no process)
    run,                \* number of times main() has been started
    exit_code,          \* exit code of the last finished run (-1: none, or killed)
    state,              \* StateManager.state["state"]
    current_position,   \* StateManager.state["current_position"]
    completed_cycles,   \* StateManager.state["completed_cycles"]
    last_error,         \* cumulative_stats.last_error is populated
    state_file,         \* content of the state file on disk
    temp_file,          \* content of <state_file>.tmp on disk
    save_pc,            \* position inside StateManager.save ("none": not saving)
    attempt,            \* loop index of save's retry loop
    os_errors,          \* OSErrors the file system has raised so far
    enable_stop_loss,   \* config.enable_stop_loss
    leverage,           \* config.leverage
    best,               \* symbol of candidates[0] of the current pass
    open_result,        \* outcome of the two opening orders of the last open
    time_left,          \* target_close_at - now, in check intervals (0: expired)
    aster_size,         \* Aster open size read by recovery
    lighter_size,       \* Lighter open size read by recovery
    query_failed,       \* the last venue query of recovery raised
    aster_pnl,          \* Aster unrealized PnL read by the monitor
    lighter_pnl,        \* Lighter unrealized PnL read by the monitor
    worst_pnl,          \* worst_pnl / worst_exchange of the monitor iteration
    close_reason,       \* why the running close was started: "timer" | "stop-loss"
    close_orders,       \* venues a closing order was sent to by the running close
    aster_closed,       \* aster_closed of the close's re-verification
    lighter_closed,     \* lighter_closed of the close's re-verification
    retry_pc,           \* position inside retry_with_backoff ("idle": not running)
    retry_attempt,      \* attempt, the loop index of retry_with_backoff
    initial_delay,      \* initial_delay of the running retry_with_backoff
    calls,              \* calls of func made by the running retry_with_backoff
    rate_limited,       \* calls of func that ended in a rate-limit error
    sleeps,             \* the delays retry_with_backoff slept, in quarter seconds
    fetch_pc,           \* position of each coroutine of the scanner pass
    fetch_attempt,      \* attempt of the retry_with_backoff of each fetch_lighter_rate
    lighter_semaphore,  \* value of LIGHTER_API_SEMAPHORE
    aster_semaphore,    \* free slots of the Aster API manager
    scan_results,       \* results of the scanner pass, by symbol
    open_order,         \* sizing and order quantities of the running open
    error_slept,        \* seconds this run has slept in state ERROR since it set ERROR
    signer,             \* the lighter.SignerClient of the running open or close call
    api_client,         \* the lighter.ApiClient of the running open or close call
    quotes,             \* which of the four best prices the open call was given
    legs,               \* the two order tasks of the open call
    close_tasks,        \* the order tasks the close call built
    save_error,         \* the exception the running save caught last
    save_sleeps,        \* the delays the running save slept, in tenths of a second
    cumulative_stats,   \* StateManager.state["cumulative_stats"]
    unrecorded_legs,    \* symbols with legs on the venues that no stored position records
    exit_pc,            \* position of the emergency closer (emergency_exit.main)
    positions,          \* what get_all_positions returned
    matched_pairs,      \* the pairs match_delta_neutral_positions found
    confirmation,       \* the operator's answer to the prompt of the emergency closer
    pairs_done,         \* the pairs close_positions has gone through
    orders_sent         \* the close orders the emergency closer has sent

vars == <<pc, run, exit_code, state, current_position, completed_cycles, last_error,
          state_file, temp_file, save_pc, attempt, os_errors, enable_stop_loss,
          leverage, best, open_result, time_left, aster_size, lighter_size,
          query_failed, aster_pnl, lighter_pnl, worst_pnl, close_reason, close_orders,
          aster_closed, lighter_closed, retry_pc, retry_attempt, initial_delay,
          calls, rate_limited, sleeps, fetch_pc, fetch_attempt, lighter_semaphore,
          aster_semaphore, scan_results, open_order,
          error_slept,
          signer,
          api_client,
          quotes,
          legs,
          close_tasks,
          save_error,
          save_sleeps,
          cumulative_stats,
          unrecorded_legs,
          exit_pc,
          positions,
          matched_pairs,
          confirmation,
          pairs_done,
          orders_sent>>

----------------------------------------------------------------------------
\* Bounds of the model
MaxFaults == 2          \* restarts of the process plus OSErrors of the file system
MaxCycles == 1          \* completed cycles the state file records
MaxStatCycles == 2      \* completed cycles the statistics are followed through
HoldChecks == 1         \* check intervals in the hold duration

Symbols == {"BTCUSDT", "ETHUSDT"}
Leverages == {3}
\* open sizes the venues may report, in 0.0001 base units
Sizes == {-20, -1, 0, 1, 20, 60}
\* unrealized PnL the venues may report, in quote units (dollars)
PnlDollars == {-50, -25, -24, 25}
\* size_base of a fresh open (0.002 base) and the average mid price it was sized at
OpenSizeBases == {20}
OpenAvgMids == {50000}

----------------------------------------------------------------------------
\* class BotState
BotStates == {"IDLE", "ANALYZING", "OPENING", "HOLDING", "CLOSING", "WAITING",
              "ERROR", "SHUTDOWN"}

\* Python None for current_position
NoPosition == [symbol |-> "None", leverage |-> 0, size_base |-> 0, avg_mid |-> 0]

\* Python None for a PnL, and a PnL that was read
NoPnl == [available |-> FALSE, value |-> 0]
Pnl(v) == [available |-> TRUE, value |-> v]

\* worst_pnl = None, worst_exchange = None
NoWorst == [available |-> FALSE, value |-> 0, exchange |-> "None"]

Abs(x) == IF x < 0 THEN -x ELSE x

\* StateManager.__init__: the counters of cumulative_stats
DefaultStats == [total_cycles |-> 0, successful_cycles |-> 0, failed_cycles |-> 0]

\* the dictionary json.dump writes: the in-memory state
Snapshot == [kind |-> "json", state |-> state, current_position |-> current_position,
             completed_cycles |-> completed_cycles, last_error |-> last_error,
             cumulative_stats |-> cumulative_stats]

\* no state file on disk
NoFile == [kind |-> "missing", state |-> "IDLE", current_position |-> NoPosition,
           completed_cycles |-> <<>>, last_error |-> FALSE, cumulative_stats |-> DefaultStats]

\* a state file cut short: not parseable JSON
Truncated == [kind |-> "truncated", state |-> "IDLE", current_position |-> NoPosition,
              completed_cycles |-> <<>>, last_error |-> FALSE, cumulative_stats |-> DefaultStats]

\* StateManager.__init__: the default in-memory state
DefaultState == [kind |-> "json", state |-> "IDLE", current_position |-> NoPosition,
                 completed_cycles |-> <<>>, last_error |-> FALSE, cumulative_stats |-> DefaultStats]

\* a state file whose text is not JSON although it still holds what was written
\* (a HOLDING state with a position, cut before its end)
Garbled == [kind |-> "garbled", state |-> "HOLDING",
            current_position |-> [symbol |-> "BTCUSDT", leverage |-> 3,
                                  size_base |-> 20, avg_mid |-> 50000],
            completed_cycles |-> <<>>, last_error |-> TRUE, cumulative_stats |-> DefaultStats]

\* the state files a first start may find
LoadFiles == {NoFile, Truncated, Garbled}

\* self.state.update(loaded_state) without json.loads deciding
LoadedUnparsed(file) == [file EXCEPT !.kind = "json"]

\* StateManager.load: the in-memory state after load()
Loaded(file) == IF file.kind = "json" THEN file ELSE DefaultState

----------------------------------------------------------------------------
\* no process yet; nothing in memory
\* bid and ask of the two venues that are not read yet, and the two legs of an
\* open that is not dispatched
NoQuotes == [lighter_bid |-> FALSE, lighter_ask |-> FALSE,
             aster_bid |-> FALSE, aster_ask |-> FALSE]
NoLegs == [aster |-> "none", lighter |-> "none"]

\* the emergency closer has read no positions
NoPositions == [aster |-> {}, lighter |-> {}]

NotStarted ==
    /\ pc = "stopped"
    /\ run = 0
    /\ exit_code = -1
    /\ state = "IDLE"
    /\ current_position = NoPosition
    /\ completed_cycles = <<>>
    /\ cumulative_stats = DefaultStats
    /\ unrecorded_legs = {}
    /\ exit_pc = "off"
    /\ positions = NoPositions
    /\ matched_pairs = {}
    /\ confirmation = "none"
    /\ pairs_done = {}
    /\ orders_sent = {}
    /\ last_error = FALSE
    /\ temp_file = "none"
    /\ save_pc = "none"
    /\ attempt = 0
    /\ save_error = "none"
    /\ save_sleeps = <<>>
    /\ os_errors = 0
    /\ enable_stop_loss \in BOOLEAN
    /\ leverage \in Leverages
    /\ best = "None"
    /\ open_result = "none"
    /\ time_left = 0
    /\ aster_size = 0
    /\ lighter_size = 0
    /\ query_failed = FALSE
    /\ aster_pnl = NoPnl
    /\ lighter_pnl = NoPnl
    /\ worst_pnl = NoWorst
    /\ close_reason = "none"
    /\ close_orders = {}
    /\ aster_closed = FALSE
    /\ lighter_closed = FALSE
    /\ error_slept = 0
    /\ signer = "none"
    /\ api_client = "none"
    /\ quotes = NoQuotes
    /\ legs = NoLegs
    /\ close_tasks = {}

\* no retry_with_backoff is running
RetryIdle ==
    /\ retry_pc = "idle"
    /\ retry_attempt = 0
    /\ initial_delay = 0
    /\ calls = 0
    /\ rate_limited = 0
    /\ sleeps = <<>>

\* the coroutines fetch_symbol_funding gathers for one symbol
FetchKinds == {"aster_rate", "lighter_rate", "aster_mid", "lighter_mid"}
Coroutines == Symbols \X FetchKinds

\* LIGHTER_API_SEMAPHORE = asyncio.Semaphore(2)
lighter_api_slots == 2
\* the concurrency cap of the Aster API manager
aster_api_slots == 2

\* no scanner pass is running
FetchIdle ==
    /\ fetch_pc = [c \in Coroutines |-> "off"]
    /\ fetch_attempt = [s \in Symbols |-> 0]
    /\ lighter_semaphore = lighter_api_slots
    /\ aster_semaphore = aster_api_slots

\* no scanner pass has gathered a result
ScanIdle == scan_results = <<>>

\* open_delta_neutral_position has computed nothing
NoOrder ==
    [notional |-> 0, avg_mid |-> 0, l_tick |-> 0, a_tick |-> 0, size_base |-> 0,
     error |-> "none", aster_qty |-> 0, lighter_qty |-> 0]

OrderIdle == open_order = NoOrder

\* nothing but the engine runs
AuxIdle == RetryIdle /\ FetchIdle /\ ScanIdle /\ OrderIdle

\* the first start finds no state file
Init == NotStarted /\ state_file = NoFile /\ AuxIdle

\* the first start finds no state file, an empty one or one that is not JSON
LoadInit == NotStarted /\ state_file \in LoadFiles /\ AuxIdle

\* the engine is not started: the part under study runs alone
EngineOff == NotStarted /\ state_file = NoFile /\ enable_stop_loss

\* open_delta_neutral_position or close_delta_neutral_position is left: its local
\* variables are gone
CallLeft ==
    /\ signer' = "none"
    /\ api_client' = "none"
    /\ quotes' = NoQuotes
    /\ legs' = NoLegs
    /\ close_tasks' = {}

\* main_loop is left: its local variables are gone
LoopLeft ==
    /\ CallLeft
    /\ best' = "None"
    /\ open_result' = "none"
    /\ aster_size' = 0
    /\ lighter_size' = 0
    /\ query_failed' = FALSE
    /\ aster_pnl' = NoPnl
    /\ lighter_pnl' = NoPnl
    /\ worst_pnl' = NoWorst
    /\ close_reason' = "none"
    /\ close_orders' = {}
    /\ aster_closed' = FALSE
    /\ lighter_closed' = FALSE
    /\ open_order' = NoOrder
    /\ error_slept' = 0

\* the process is gone: nothing of its memory is left
ProcessGone ==
    /\ state' = "IDLE"
    /\ current_position' = NoPosition
    /\ completed_cycles' = <<>>
    /\ cumulative_stats' = DefaultStats
    /\ last_error' = FALSE
    /\ save_pc' = "none"
    /\ attempt' = 0
    /\ save_error' = "none"
    /\ save_sleeps' = <<>>
    /\ LoopLeft

\* a call of StateManager.save: the caller continues when save_pc is "none" again
CallSave ==
    save_pc' = "open" /\ attempt' = 0 /\ save_error' = "none" /\ save_sleeps' = <<>>
NoSave == UNCHANGED <<save_pc, attempt, save_error, save_sleeps>>

\* the process runs and is not inside save
Running(at) == pc = at /\ save_pc = "none"

\* restarts and OSErrors so far
Faults == (IF run > 0 THEN run - 1 ELSE 0) + os_errors

----------------------------------------------------------------------------
\* StateManager.save

MaxSaveRetries == 3

\* open(self.state_file, 'w'): the target itself is truncated and written
SaveOpenInPlace ==
    /\ save_pc = "open"
    /\ state_file' = Truncated
    /\ save_pc' = "write"
    /\ UNCHANGED <<pc, run, exit_code, state, current_position, completed_cycles,
                   last_error, temp_file, attempt, os_errors, enable_stop_loss,
                   leverage, best, open_result, time_left, aster_size,
                   lighter_size, query_failed, aster_pnl, lighter_pnl, worst_pnl,
                   close_reason, close_orders, aster_closed, lighter_closed,
                   retry_pc, retry_attempt, initial_delay, calls, rate_limited,
                   sleeps, fetch_pc, fetch_attempt, lighter_semaphore,
                   aster_semaphore, scan_results, open_order, error_slept, signer,
                   api_client, quotes, legs, close_tasks, save_error, save_sleeps,
                   cumulative_stats, unrecorded_legs, exit_pc, positions,
                   matched_pairs, confirmation, pairs_done, orders_sent>>

\* open(temp_file, 'w'): the temp file exists and is empty
SaveOpenTemp ==
    /\ save_pc = "open"
    /\ temp_file' = "truncated"
    /\ save_pc' = "write"
    /\ UNCHANGED <<pc, run, exit_code, state, current_position, completed_cycles,
                   last_error, state_file, attempt, os_errors, enable_stop_loss,
                   leverage, best, open_result, time_left, aster_size,
                   lighter_size, query_failed, aster_pnl, lighter_pnl, worst_pnl,
                   close_reason, close_orders, aster_closed, lighter_closed,
                   retry_pc, retry_attempt, initial_delay, calls, rate_limited,
                   sleeps, fetch_pc, fetch_attempt, lighter_semaphore,
                   aster_semaphore, scan_results, open_order, error_slept, signer,
                   api_client, quotes, legs, close_tasks, save_error, save_sleeps,
                   cumulative_stats, unrecorded_legs, exit_pc, positions,
                   matched_pairs, confirmation, pairs_done, orders_sent>>

\* json.dump(self.state, f) and the close of the with block
SaveWriteTemp ==
    /\ save_pc = "write"
    /\ temp_file' = "complete"
    /\ save_pc' = "replace"
    /\ UNCHANGED <<pc, run, exit_code, state, current_position, completed_cycles,
                   last_error, state_file, attempt, os_errors, enable_stop_loss,
                   leverage, best, open_result, time_left, aster_size,
                   lighter_size, query_failed, aster_pnl, lighter_pnl, worst_pnl,
                   close_reason, close_orders, aster_closed, lighter_closed,
                   retry_pc, retry_attempt, initial_delay, calls, rate_limited,
                   sleeps, fetch_pc, fetch_attempt, lighter_semaphore,
                   aster_semaphore, scan_results, open_order, error_slept, signer,
                   api_client, quotes, legs, close_tasks, save_error, save_sleeps,
                   cumulative_stats, unrecorded_legs, exit_pc, positions,
                   matched_pairs, confirmation, pairs_done, orders_sent>>

\* os.replace(temp_file, self.state_file); return
SaveReplace ==
    /\ save_pc = "replace"
    /\ temp_file = "complete"
    /\ state_file' = Snapshot
    /\ temp_file' = "none"
    /\ save_pc' = "none"
    /\ UNCHANGED <<pc, run, exit_code, state, current_position, completed_cycles,
                   last_error, attempt, os_errors, enable_stop_loss, leverage,
                   best, open_result, time_left, aster_size, lighter_size,
                   query_failed, aster_pnl, lighter_pnl, worst_pnl, close_reason,
                   close_orders, aster_closed, lighter_closed, retry_pc,
                   retry_attempt, initial_delay, calls, rate_limited, sleeps,
                   fetch_pc, fetch_attempt, lighter_semaphore, aster_semaphore,
                   scan_results, open_order, error_slept, signer, api_client,
                   quotes, legs, close_tasks, save_error, save_sleeps,
                   cumulative_stats, unrecorded_legs, exit_pc, positions,
                   matched_pairs, confirmation, pairs_done, orders_sent>>

\* a delay that gets shorter with every retry
SaveDelayShorter(n) == MaxSaveRetries - n

\* time.sleep(0.1 * (attempt + 1)), in tenths of a second
SaveDelay(n) == n + 1

\* the except clauses: errno 16 is retried after a sleep while attempts remain,
\* anything else (and the last attempt) ends save without a write
SaveCaught(busy) ==
    /\ save_error' = IF busy THEN "busy" ELSE "other"
    /\ IF busy /\ attempt < MaxSaveRetries - 1
       THEN /\ save_pc' = "open"
            /\ attempt' = attempt + 1
            /\ save_sleeps' = Append(save_sleeps, SaveDelay(attempt))
       ELSE /\ save_pc' = "none"
            /\ attempt' = attempt
            /\ save_sleeps' = save_sleeps

\* an OSError (errno 16 or another) in open, json.dump or os.replace
SaveOSError ==
    /\ save_pc \in {"open", "write", "replace"}
    /\ Faults < MaxFaults
    /\ os_errors' = os_errors + 1
    /\ \E busy \in BOOLEAN : SaveCaught(busy)
    /\ UNCHANGED <<pc, run, exit_code, state, current_position, completed_cycles,
                   last_error, state_file, temp_file, enable_stop_loss, leverage,
                   best, open_result, time_left, aster_size, lighter_size,
                   query_failed, aster_pnl, lighter_pnl, worst_pnl, close_reason,
                   close_orders, aster_closed, lighter_closed, retry_pc,
                   retry_attempt, initial_delay, calls, rate_limited, sleeps,
                   fetch_pc, fetch_attempt, lighter_semaphore, aster_semaphore,
                   scan_results, open_order, error_slept, signer, api_client,
                   quotes, legs, close_tasks, cumulative_stats, unrecorded_legs,
                   exit_pc, positions, matched_pairs, confirmation, pairs_done,
                   orders_sent>>

----------------------------------------------------------------------------
\* main(): load the state file, set_config (a save), then main_loop
Main ==
    /\ pc \in {"stopped", "exited"}
    /\ run = 0 \/ Faults < MaxFaults
    /\ run' = run + 1
    /\ exit_code' = -1
    /\ state' = Loaded(state_file).state
    /\ current_position' = Loaded(state_file).current_position
    /\ completed_cycles' = Loaded(state_file).completed_cycles
    /\ cumulative_stats' = Loaded(state_file).cumulative_stats
    /\ last_error' = Loaded(state_file).last_error
    /\ \E t \in 0..time_left : time_left' = t      \* time passed while stopped
    /\ CallSave
    /\ pc' = "start"
    /\ UNCHANGED <<state_file, temp_file, os_errors, enable_stop_loss, leverage, best,
                   open_result, aster_size, lighter_size, query_failed, aster_pnl,
                   lighter_pnl, worst_pnl, close_reason, close_orders,
                   aster_closed, lighter_closed, retry_pc, retry_attempt,
                   initial_delay, calls, rate_limited, sleeps, fetch_pc,
                   fetch_attempt, lighter_semaphore, aster_semaphore, scan_results,
                   open_order, error_slept, signer, api_client, quotes, legs,
                   close_tasks, unrecorded_legs, exit_pc, positions, matched_pairs,
                   confirmation, pairs_done, orders_sent>>

\* the process is killed (SIGKILL, SIGTERM, power to the process): memory is lost
Kill ==
    /\ pc \notin {"stopped", "exited"}
    /\ pc' = "stopped"
    /\ ProcessGone
    /\ UNCHANGED <<run, exit_code, state_file, temp_file, os_errors, enable_stop_loss,
                   leverage, time_left, retry_pc, retry_attempt, initial_delay,
                   calls, rate_limited, sleeps, fetch_pc, fetch_attempt,
                   lighter_semaphore, aster_semaphore, scan_results,
                   unrecorded_legs, exit_pc, positions, matched_pairs,
                   confirmation, pairs_done, orders_sent>>

----------------------------------------------------------------------------
\* verify_and_recover_position

\* abs(size) > 0.0001: the venue holds a position
PosEps == 1
NonZero(size) == size # 0
HasPosition(size) == Abs(size) > PosEps

\* (aster_size > 0 and lighter_size < 0) or (aster_size < 0 and lighter_size > 0)
IsDeltaNeutral(a, l) == (a > 0 /\ l < 0) \/ (a < 0 /\ l > 0)

\* the decision of verify_and_recover_position on two sizes that were read
IsValidHedge(a, l) == HasPosition(a) /\ HasPosition(l) /\ IsDeltaNeutral(a, l)

\* metadata["size_base"] after a resume: replaced by the observed average when
\* size_diff > 0.001 and size_diff_pct > 0.1
ActualSizeBase(a, l) == (Abs(a) + Abs(l)) \div 2

\* size_diff > 0.001 or size_diff_pct > 0.1
SizeMismatchEither(saved, a, l) ==
    LET diff == Abs(ActualSizeBase(a, l) - saved)
    IN  diff > 10 \/ (IF saved > 0 THEN diff * 1000 > saved ELSE FALSE)

SizeMismatch(saved, a, l) ==
    LET diff == Abs(ActualSizeBase(a, l) - saved)
    IN  diff > 10 /\ (IF saved > 0 THEN diff * 1000 > saved ELSE FALSE)

\* main_loop entry: the AsterApiManager is built; a saved position is verified
StartNoPosition ==
    /\ Running("start")
    /\ current_position = NoPosition
    /\ pc' = "loop"
    /\ NoSave
    /\ UNCHANGED <<run, exit_code, state, current_position, completed_cycles,
                   last_error, state_file, temp_file, os_errors, enable_stop_loss,
                   leverage, best, open_result, time_left, aster_size,
                   lighter_size, query_failed, aster_pnl, lighter_pnl, worst_pnl,
                   close_reason, close_orders, aster_closed, lighter_closed,
                   retry_pc, retry_attempt, initial_delay, calls, rate_limited,
                   sleeps, fetch_pc, fetch_attempt, lighter_semaphore,
                   aster_semaphore, scan_results, open_order, error_slept, signer,
                   api_client, quotes, legs, close_tasks, cumulative_stats,
                   unrecorded_legs, exit_pc, positions, matched_pairs,
                   confirmation, pairs_done, orders_sent>>

\* verify_and_recover_position, a venue query raising: the except branch is taken
RecoverQueryError ==
    /\ Running("start")
    /\ current_position # NoPosition
    /\ query_failed' = TRUE
    /\ aster_size' = 0
    /\ lighter_size' = 0
    /\ pc' = "rec_read"
    /\ NoSave
    /\ UNCHANGED <<run, exit_code, state, current_position, completed_cycles,
                   last_error, state_file, temp_file, os_errors, enable_stop_loss,
                   leverage, best, open_result, time_left, aster_pnl, lighter_pnl,
                   worst_pnl, close_reason, close_orders, aster_closed,
                   lighter_closed, retry_pc, retry_attempt, initial_delay, calls,
                   rate_limited, sleeps, fetch_pc, fetch_attempt,
                   lighter_semaphore, aster_semaphore, scan_results, open_order,
                   error_slept, signer, api_client, quotes, legs, close_tasks,
                   cumulative_stats, unrecorded_legs, exit_pc, positions,
                   matched_pairs, confirmation, pairs_done, orders_sent>>

\* verify_and_recover_position: both venues answer with their signed sizes
RecoverQuery ==
    /\ Running("start")
    /\ current_position # NoPosition
    /\ \E a \in Sizes, l \in Sizes :
          /\ aster_size' = a
          /\ lighter_size' = l
    /\ query_failed' = FALSE
    /\ pc' = "rec_read"
    /\ NoSave
    /\ UNCHANGED <<run, exit_code, state, current_position, completed_cycles,
                   last_error, state_file, temp_file, os_errors, enable_stop_loss,
                   leverage, best, open_result, time_left, aster_pnl, lighter_pnl,
                   worst_pnl, close_reason, close_orders, aster_closed,
                   lighter_closed, retry_pc, retry_attempt, initial_delay, calls,
                   rate_limited, sleeps, fetch_pc, fetch_attempt,
                   lighter_semaphore, aster_semaphore, scan_results, open_order,
                   error_slept, signer, api_client, quotes, legs, close_tasks,
                   cumulative_stats, unrecorded_legs, exit_pc, positions,
                   matched_pairs, confirmation, pairs_done, orders_sent>>

\* verify_and_recover_position: the decision on what was read
Recover ==
    /\ Running("rec_read")
    /\ IF ~query_failed /\ IsValidHedge(aster_size, lighter_size)
       THEN /\ pc' = "rec_valid"
            /\ IF SizeMismatch(current_position.size_base, aster_size, lighter_size)
               THEN /\ current_position' =
                         [current_position EXCEPT
                             !.size_base = ActualSizeBase(aster_size, lighter_size)]
                    /\ CallSave
               ELSE /\ UNCHANGED current_position
                    /\ NoSave
       ELSE /\ pc' = "rec_invalid"
            /\ current_position' = NoPosition
            /\ CallSave
    /\ aster_size' = 0
    /\ lighter_size' = 0
    /\ query_failed' = FALSE
    /\ UNCHANGED <<run, exit_code, state, completed_cycles, last_error, state_file,
                   temp_file, os_errors, enable_stop_loss, leverage, best,
                   open_result, time_left, aster_pnl, lighter_pnl, worst_pnl,
                   close_reason, close_orders, aster_closed, lighter_closed,
                   retry_pc, retry_attempt, initial_delay, calls, rate_limited,
                   sleeps, fetch_pc, fetch_attempt, lighter_semaphore,
                   aster_semaphore, scan_results, open_order, error_slept, signer,
                   api_client, quotes, legs, close_tasks, cumulative_stats,
                   unrecorded_legs, exit_pc, positions, matched_pairs,
                   confirmation, pairs_done, orders_sent>>

\* main_loop after recovery: HOLDING when the position is valid, IDLE when a
\* HOLDING state lost its position
RecoverSetState ==
    /\ save_pc = "none"
    /\ pc \in {"rec_valid", "rec_invalid"}
    /\ IF pc = "rec_valid" /\ state # "HOLDING"
       THEN state' = "HOLDING" /\ CallSave
       ELSE IF pc = "rec_invalid" /\ state = "HOLDING"
            THEN state' = "IDLE" /\ CallSave
            ELSE UNCHANGED state /\ NoSave
    /\ pc' = "loop"
    /\ UNCHANGED <<run, exit_code, current_position, completed_cycles, last_error,
                   state_file, temp_file, os_errors, enable_stop_loss, leverage,
                   best, open_result, time_left, aster_size, lighter_size,
                   query_failed, aster_pnl, lighter_pnl, worst_pnl, close_reason,
                   close_orders, aster_closed, lighter_closed, retry_pc,
                   retry_attempt, initial_delay, calls, rate_limited, sleeps,
                   fetch_pc, fetch_attempt, lighter_semaphore, aster_semaphore,
                   scan_results, open_order, error_slept, signer, api_client,
                   quotes, legs, close_tasks, cumulative_stats, unrecorded_legs,
                   exit_pc, positions, matched_pairs, confirmation, pairs_done,
                   orders_sent>>

----------------------------------------------------------------------------
\* main_loop, state IDLE or WAITING: the scanner pass and the open

\* set_state(BotState.ANALYZING); the staggered fetches start
LoopIdle ==
    /\ Running("loop")
    /\ state \in {"IDLE", "WAITING"}
    /\ state' = "ANALYZING"
    /\ CallSave
    /\ pc' = "scan"
    /\ UNCHANGED <<run, exit_code, current_position, completed_cycles, last_error,
                   state_file, temp_file, os_errors, enable_stop_loss, leverage,
                   best, open_result, time_left, aster_size, lighter_size,
                   query_failed, aster_pnl, lighter_pnl, worst_pnl, close_reason,
                   close_orders, aster_closed, lighter_closed, retry_pc,
                   retry_attempt, initial_delay, calls, rate_limited, sleeps,
                   fetch_pc, fetch_attempt, lighter_semaphore, aster_semaphore,
                   scan_results, open_order, error_slept, signer, api_client,
                   quotes, legs, close_tasks, cumulative_stats, unrecorded_legs,
                   exit_pc, positions, matched_pairs, confirmation, pairs_done,
                   orders_sent>>

\* a pass without a symbol to open that goes back to IDLE
NoCandidateIdle == "IDLE"

\* the state set when the pass yields no symbol to open
NoCandidateState == "WAITING"

\* no available symbol, or no candidate at min_net_apr_threshold
ScanNoCandidate ==
    /\ Running("scan")
    /\ state' = NoCandidateState
    /\ CallSave
    /\ pc' = "wait_sleep"
    /\ UNCHANGED <<run, exit_code, current_position, completed_cycles, last_error,
                   state_file, temp_file, os_errors, enable_stop_loss, leverage,
                   best, open_result, time_left, aster_size, lighter_size,
                   query_failed, aster_pnl, lighter_pnl, worst_pnl, close_reason,
                   close_orders, aster_closed, lighter_closed, retry_pc,
                   retry_attempt, initial_delay, calls, rate_limited, sleeps,
                   fetch_pc, fetch_attempt, lighter_semaphore, aster_semaphore,
                   scan_results, open_order, error_slept, signer, api_client,
                   quotes, legs, close_tasks, cumulative_stats, unrecorded_legs,
                   exit_pc, positions, matched_pairs, confirmation, pairs_done,
                   orders_sent>>

\* await asyncio.sleep(60); continue
WaitSleep ==
    /\ Running("wait_sleep")
    /\ pc' = "loop"
    /\ NoSave
    /\ UNCHANGED <<run, exit_code, state, current_position, completed_cycles,
                   last_error, state_file, temp_file, os_errors, enable_stop_loss,
                   leverage, best, open_result, time_left, aster_size,
                   lighter_size, query_failed, aster_pnl, lighter_pnl, worst_pnl,
                   close_reason, close_orders, aster_closed, lighter_closed,
                   retry_pc, retry_attempt, initial_delay, calls, rate_limited,
                   sleeps, fetch_pc, fetch_attempt, lighter_semaphore,
                   aster_semaphore, scan_results, open_order, error_slept, signer,
                   api_client, quotes, legs, close_tasks, cumulative_stats,
                   unrecorded_legs, exit_pc, positions, matched_pairs,
                   confirmation, pairs_done, orders_sent>>

\* best = candidates[0]; set_state(BotState.OPENING)
ScanCandidate ==
    /\ Running("scan")
    /\ \E s \in Symbols : best' = s
    /\ state' = "OPENING"
    /\ CallSave
    /\ pc' = "open"
    /\ UNCHANGED <<run, exit_code, current_position, completed_cycles, last_error,
                   state_file, temp_file, os_errors, enable_stop_loss, leverage,
                   open_result, time_left, aster_size, lighter_size, query_failed,
                   aster_pnl, lighter_pnl, worst_pnl, close_reason, close_orders,
                   aster_closed, lighter_closed, retry_pc, retry_attempt,
                   initial_delay, calls, rate_limited, sleeps, fetch_pc,
                   fetch_attempt, lighter_semaphore, aster_semaphore, scan_results,
                   open_order, error_slept, signer, api_client, quotes, legs,
                   close_tasks, cumulative_stats, unrecorded_legs, exit_pc,
                   positions, matched_pairs, confirmation, pairs_done, orders_sent>>

\* open_delta_neutral_position up to the order tasks: clients, quotes, leverage,
\* sizing. Any raise before the orders (check_client, a quote fetch, a size that
\* is too small) fails the open with nothing sent
OpenPrepare ==
    /\ Running("open")
    /\ \E ok \in BOOLEAN : pc' = IF ok THEN "open_orders" ELSE "open_failed"
    /\ open_result' = "none"
    /\ NoSave
    /\ UNCHANGED <<run, exit_code, state, current_position, completed_cycles,
                   last_error, state_file, temp_file, os_errors, enable_stop_loss,
                   leverage, best, time_left, aster_size, lighter_size,
                   query_failed, aster_pnl, lighter_pnl, worst_pnl, close_reason,
                   close_orders, aster_closed, lighter_closed, retry_pc,
                   retry_attempt, initial_delay, calls, rate_limited, sleeps,
                   fetch_pc, fetch_attempt, lighter_semaphore, aster_semaphore,
                   scan_results, open_order, error_slept, signer, api_client,
                   quotes, legs, close_tasks, cumulative_stats, unrecorded_legs,
                   exit_pc, positions, matched_pairs, confirmation, pairs_done,
                   orders_sent>>

\* the outcome of asyncio.gather over the two order tasks
GatherResult(aster_ok, lighter_ok) ==
    IF aster_ok /\ lighter_ok THEN "both"
    ELSE IF aster_ok THEN "aster_only"
    ELSE IF lighter_ok THEN "lighter_only"
    ELSE "neither"

\* results = await asyncio.gather(*tasks, return_exceptions=True); any error raises
OpenOrders ==
    /\ Running("open_orders")
    /\ \E aster_ok \in BOOLEAN, lighter_ok \in BOOLEAN :
          /\ open_result' = GatherResult(aster_ok, lighter_ok)
          /\ pc' = IF aster_ok /\ lighter_ok THEN "open_verify" ELSE "open_failed"
    /\ NoSave
    /\ UNCHANGED <<run, exit_code, state, current_position, completed_cycles,
                   last_error, state_file, temp_file, os_errors, enable_stop_loss,
                   leverage, best, time_left, aster_size, lighter_size,
                   query_failed, aster_pnl, lighter_pnl, worst_pnl, close_reason,
                   close_orders, aster_closed, lighter_closed, retry_pc,
                   retry_attempt, initial_delay, calls, rate_limited, sleeps,
                   fetch_pc, fetch_attempt, lighter_semaphore, aster_semaphore,
                   scan_results, open_order, error_slept, signer, api_client,
                   quotes, legs, close_tasks, cumulative_stats, exit_pc, positions,
                   matched_pairs, confirmation, pairs_done, orders_sent>>

\* the gather, the venues left aside
OpenGather == OpenOrders /\ UNCHANGED unrecorded_legs

\* the gather, with the venues: an order that was filled is a leg of the symbol
OpenFilled ==
    /\ OpenOrders
    /\ unrecorded_legs' = IF open_result' # "neither"
                          THEN unrecorded_legs \cup {best} ELSE unrecorded_legs

\* a stored position that is null
NullPosition(symbol, lev, size_base, avg_mid) == NoPosition

\* state_mgr.state["current_position"] = {...}
NewPosition(symbol, lev, size_base, avg_mid) ==
    [symbol |-> symbol, leverage |-> lev, size_base |-> size_base, avg_mid |-> avg_mid]

\* the open returned its metadata: store the position, set_state(BotState.HOLDING)
OpenStored ==
    /\ Running("open_verify")
    /\ \E sb \in OpenSizeBases, mid \in OpenAvgMids :
          current_position' = NewPosition(best, leverage, sb, mid)
    /\ time_left' = HoldChecks
    /\ best' = "None"
    /\ open_result' = "none"
    /\ state' = "HOLDING"
    /\ CallSave
    /\ pc' = "loop"
    /\ UNCHANGED <<run, exit_code, completed_cycles, last_error, state_file, temp_file,
                   os_errors, enable_stop_loss, leverage, aster_size, lighter_size,
                   query_failed, aster_pnl, lighter_pnl, worst_pnl, close_reason,
                   close_orders, aster_closed, lighter_closed, retry_pc,
                   retry_attempt, initial_delay, calls, rate_limited, sleeps,
                   fetch_pc, fetch_attempt, lighter_semaphore, aster_semaphore,
                   scan_results, open_order, error_slept, signer, api_client,
                   quotes, legs, close_tasks, cumulative_stats, exit_pc, positions,
                   matched_pairs, confirmation, pairs_done, orders_sent>>

\* the store of the position, the venues left aside
OpenReturn == OpenStored /\ UNCHANGED unrecorded_legs

\* the store of the position, with the venues: the legs of the symbol are recorded
OpenRecorded == OpenStored /\ unrecorded_legs' = unrecorded_legs \ {current_position'.symbol}

\* except Exception around the open or the close: set_state(BotState.ERROR)
OperationFailed ==
    /\ save_pc = "none"
    /\ pc \in {"open_failed", "close_failed"}
    /\ state' = "ERROR"
    /\ CallSave
    /\ pc' = IF pc = "open_failed" THEN "open_err_record" ELSE "close_err_record"
    /\ best' = "None"
    /\ open_order' = NoOrder
    /\ error_slept' = 0
    /\ close_reason' = "none"
    /\ close_orders' = {}
    /\ worst_pnl' = NoWorst
    /\ aster_closed' = FALSE
    /\ lighter_closed' = FALSE
    /\ UNCHANGED <<run, exit_code, current_position, completed_cycles, last_error,
                   state_file, temp_file, os_errors, enable_stop_loss, leverage,
                   open_result, time_left, aster_size, lighter_size, query_failed,
                   aster_pnl, lighter_pnl, retry_pc, retry_attempt, initial_delay,
                   calls, rate_limited, sleeps, fetch_pc, fetch_attempt,
                   lighter_semaphore, aster_semaphore, scan_results, signer,
                   api_client, quotes, legs, close_tasks, cumulative_stats,
                   unrecorded_legs, exit_pc, positions, matched_pairs,
                   confirmation, pairs_done, orders_sent>>

\* cumulative_stats.last_error = str(e); save()
ErrorRecord ==
    /\ save_pc = "none"
    /\ pc \in {"open_err_record", "close_err_record"}
    /\ last_error' = TRUE
    /\ CallSave
    /\ pc' = "err_sleep"
    /\ UNCHANGED <<run, exit_code, state, current_position, completed_cycles,
                   state_file, temp_file, os_errors, enable_stop_loss, leverage,
                   best, open_result, time_left, aster_size, lighter_size,
                   query_failed, aster_pnl, lighter_pnl, worst_pnl, close_reason,
                   close_orders, aster_closed, lighter_closed, retry_pc,
                   retry_attempt, initial_delay, calls, rate_limited, sleeps,
                   fetch_pc, fetch_attempt, lighter_semaphore, aster_semaphore,
                   scan_results, open_order, error_slept, signer, api_client,
                   quotes, legs, close_tasks, cumulative_stats, unrecorded_legs,
                   exit_pc, positions, matched_pairs, confirmation, pairs_done,
                   orders_sent>>

\* the sleeps of the failure handlers and of the ERROR branch, in seconds
error_handler_sleep == 300
error_branch_sleep == 60

\* await asyncio.sleep(300); continue
ErrSleep ==
    /\ Running("err_sleep")
    /\ open_result' = "none"
    /\ error_slept' = error_slept + error_handler_sleep
    /\ pc' = "loop"
    /\ NoSave
    /\ UNCHANGED <<run, exit_code, state, current_position, completed_cycles,
                   last_error, state_file, temp_file, os_errors, enable_stop_loss,
                   leverage, best, time_left, aster_size, lighter_size,
                   query_failed, aster_pnl, lighter_pnl, worst_pnl, close_reason,
                   close_orders, aster_closed, lighter_closed, retry_pc,
                   retry_attempt, initial_delay, calls, rate_limited, sleeps,
                   fetch_pc, fetch_attempt, lighter_semaphore, aster_semaphore,
                   scan_results, open_order, signer, api_client, quotes, legs,
                   close_tasks, cumulative_stats, unrecorded_legs, exit_pc,
                   positions, matched_pairs, confirmation, pairs_done, orders_sent>>

\* state ERROR: await asyncio.sleep(60); set_state(BotState.IDLE)
LoopError ==
    /\ Running("loop")
    /\ state = "ERROR"
    /\ state' = "IDLE"
    /\ error_slept' = 0
    /\ CallSave
    /\ pc' = "loop"
    /\ UNCHANGED <<run, exit_code, current_position, completed_cycles, last_error,
                   state_file, temp_file, os_errors, enable_stop_loss, leverage,
                   best, open_result, time_left, aster_size, lighter_size,
                   query_failed, aster_pnl, lighter_pnl, worst_pnl, close_reason,
                   close_orders, aster_closed, lighter_closed, retry_pc,
                   retry_attempt, initial_delay, calls, rate_limited, sleeps,
                   fetch_pc, fetch_attempt, lighter_semaphore, aster_semaphore,
                   scan_results, open_order, signer, api_client, quotes, legs,
                   close_tasks, cumulative_stats, unrecorded_legs, exit_pc,
                   positions, matched_pairs, confirmation, pairs_done, orders_sent>>

\* a last branch that takes the remaining values of BotState alone
LoopUnknownListed ==
    /\ Running("loop")
    /\ state \in {"ANALYZING", "OPENING", "CLOSING", "SHUTDOWN"}
    /\ state' = "IDLE"
    /\ CallSave
    /\ pc' = "loop"
    /\ UNCHANGED <<run, exit_code, current_position, completed_cycles, last_error,
                   state_file, temp_file, os_errors, enable_stop_loss, leverage,
                   best, open_result, time_left, aster_size, lighter_size,
                   query_failed, aster_pnl, lighter_pnl, worst_pnl, close_reason,
                   close_orders, aster_closed, lighter_closed, retry_pc,
                   retry_attempt, initial_delay, calls, rate_limited, sleeps,
                   fetch_pc, fetch_attempt, lighter_semaphore, aster_semaphore,
                   scan_results, open_order, error_slept, signer, api_client,
                   quotes, legs, close_tasks, cumulative_stats, unrecorded_legs,
                   exit_pc, positions, matched_pairs, confirmation, pairs_done,
                   orders_sent>>

\* else: any other state ("Unknown state"): set_state(BotState.IDLE)
LoopUnknown ==
    /\ Running("loop")
    /\ state \notin {"IDLE", "WAITING", "HOLDING", "ERROR"}
    /\ state' = "IDLE"
    /\ CallSave
    /\ pc' = "loop"
    /\ UNCHANGED <<run, exit_code, current_position, completed_cycles, last_error,
                   state_file, temp_file, os_errors, enable_stop_loss, leverage,
                   best, open_result, time_left, aster_size, lighter_size,
                   query_failed, aster_pnl, lighter_pnl, worst_pnl, close_reason,
                   close_orders, aster_closed, lighter_closed, retry_pc,
                   retry_attempt, initial_delay, calls, rate_limited, sleeps,
                   fetch_pc, fetch_attempt, lighter_semaphore, aster_semaphore,
                   scan_results, open_order, error_slept, signer, api_client,
                   quotes, legs, close_tasks, cumulative_stats, unrecorded_legs,
                   exit_pc, positions, matched_pairs, confirmation, pairs_done,
                   orders_sent>>

----------------------------------------------------------------------------
\* main_loop, state HOLDING: hold timer, PnL monitor and stop-loss

\* config.notional_per_position, in quote units
notional_per_position == 100

\* (100.0 / leverage) * 0.75, in twelfths of a percent
calculate_stop_loss_percentage(lev) ==
    IF lev <= 0 THEN 0 ELSE (((100 * 12) \div lev) * 3) \div 4

\* size_base * avg_mid if size_base and avg_mid else config.notional_per_position
PositionValue(position) ==
    IF position.size_base # 0 /\ position.avg_mid # 0
    THEN position.size_base * position.avg_mid
    ELSE notional_per_position * 10000

\* the higher of the two PnLs in place of the lower
HighestPnl(a_pnl, l_pnl) ==
    IF a_pnl.available /\ l_pnl.available
    THEN IF a_pnl.value > l_pnl.value
         THEN [available |-> TRUE, value |-> a_pnl.value, exchange |-> "Aster"]
         ELSE [available |-> TRUE, value |-> l_pnl.value, exchange |-> "Lighter"]
    ELSE IF a_pnl.available
         THEN [available |-> TRUE, value |-> a_pnl.value, exchange |-> "Aster"]
         ELSE IF l_pnl.available
              THEN [available |-> TRUE, value |-> l_pnl.value, exchange |-> "Lighter"]
              ELSE NoWorst

\* worst_pnl and worst_exchange: the lower of the two PnLs, or the one that was read
WorstPnl(a_pnl, l_pnl) ==
    IF a_pnl.available /\ l_pnl.available
    THEN IF a_pnl.value <= l_pnl.value
         THEN [available |-> TRUE, value |-> a_pnl.value, exchange |-> "Aster"]
         ELSE [available |-> TRUE, value |-> l_pnl.value, exchange |-> "Lighter"]
    ELSE IF a_pnl.available
         THEN [available |-> TRUE, value |-> a_pnl.value, exchange |-> "Aster"]
         ELSE IF l_pnl.available
              THEN [available |-> TRUE, value |-> l_pnl.value, exchange |-> "Lighter"]
              ELSE NoWorst

\* abs(pnl_pct) > stop_loss_pct
ThresholdExceeded(worst_value, position_value, lev) ==
    Abs(worst_value) * 100 * 12 > calculate_stop_loss_percentage(lev) * position_value

\* abs(pnl_pct) >= stop_loss_pct with pnl_pct = worst_pnl / position_value * 100
ThresholdBreached(worst_value, position_value, lev) ==
    Abs(worst_value) * 100 * 12 >= calculate_stop_loss_percentage(lev) * position_value

\* the stop-loss decision of one monitor iteration
StopLossTriggered(a_pnl, l_pnl, position, enabled) ==
    LET worst == WorstPnl(a_pnl, l_pnl)
        value == PositionValue(position)
    IN  /\ worst.available
        /\ value > 0
        /\ enabled
        /\ ThresholdBreached(worst.value, value, position.leverage)

PnlReadings == {NoPnl} \cup {Pnl(d * 10000) : d \in PnlDollars}

\* HOLDING without a position: set_state(BotState.IDLE)
LoopHoldingNoPosition ==
    /\ Running("loop")
    /\ state = "HOLDING"
    /\ current_position = NoPosition
    /\ state' = "IDLE"
    /\ CallSave
    /\ pc' = "loop"
    /\ UNCHANGED <<run, exit_code, current_position, completed_cycles, last_error,
                   state_file, temp_file, os_errors, enable_stop_loss, leverage,
                   best, open_result, time_left, aster_size, lighter_size,
                   query_failed, aster_pnl, lighter_pnl, worst_pnl, close_reason,
                   close_orders, aster_closed, lighter_closed, retry_pc,
                   retry_attempt, initial_delay, calls, rate_limited, sleeps,
                   fetch_pc, fetch_attempt, lighter_semaphore, aster_semaphore,
                   scan_results, open_order, error_slept, signer, api_client,
                   quotes, legs, close_tasks, cumulative_stats, unrecorded_legs,
                   exit_pc, positions, matched_pairs, confirmation, pairs_done,
                   orders_sent>>

\* the expiry is passed over: the iteration sleeps and the position stays held
LoopHoldingOn ==
    /\ Running("loop")
    /\ state = "HOLDING"
    /\ current_position # NoPosition
    /\ time_left = 0
    /\ pc' = "check_sleep"
    /\ NoSave
    /\ UNCHANGED <<run, exit_code, state, current_position, completed_cycles,
                   last_error, state_file, temp_file, os_errors, enable_stop_loss,
                   leverage, best, open_result, time_left, aster_size,
                   lighter_size, query_failed, aster_pnl, lighter_pnl, worst_pnl,
                   close_reason, close_orders, aster_closed, lighter_closed,
                   retry_pc, retry_attempt, initial_delay, calls, rate_limited,
                   sleeps, fetch_pc, fetch_attempt, lighter_semaphore,
                   aster_semaphore, scan_results, open_order, error_slept, signer,
                   api_client, quotes, legs, close_tasks, cumulative_stats,
                   unrecorded_legs, exit_pc, positions, matched_pairs,
                   confirmation, pairs_done, orders_sent>>

\* now >= target_close: set_state(BotState.CLOSING), then the close
LoopHoldingExpired ==
    /\ Running("loop")
    /\ state = "HOLDING"
    /\ current_position # NoPosition
    /\ time_left = 0
    /\ state' = "CLOSING"
    /\ close_reason' = "timer"
    /\ CallSave
    /\ pc' = "close"
    /\ UNCHANGED <<run, exit_code, current_position, completed_cycles, last_error,
                   state_file, temp_file, os_errors, enable_stop_loss, leverage,
                   best, open_result, time_left, aster_size, lighter_size,
                   query_failed, aster_pnl, lighter_pnl, worst_pnl, close_orders,
                   aster_closed, lighter_closed, retry_pc, retry_attempt,
                   initial_delay, calls, rate_limited, sleeps, fetch_pc,
                   fetch_attempt, lighter_semaphore, aster_semaphore, scan_results,
                   open_order, error_slept, signer, api_client, quotes, legs,
                   close_tasks, cumulative_stats, unrecorded_legs, exit_pc,
                   positions, matched_pairs, confirmation, pairs_done, orders_sent>>

\* still holding: get_position_pnls, then the stop-loss evaluation
Monitor ==
    /\ Running("loop")
    /\ state = "HOLDING"
    /\ current_position # NoPosition
    /\ time_left > 0
    /\ \E a_pnl \in PnlReadings, l_pnl \in PnlReadings :
          /\ aster_pnl' = a_pnl
          /\ lighter_pnl' = l_pnl
          /\ worst_pnl' = WorstPnl(a_pnl, l_pnl)
          /\ IF StopLossTriggered(a_pnl, l_pnl, current_position, enable_stop_loss)
             THEN /\ state' = "CLOSING"
                  /\ close_reason' = "stop-loss"
                  /\ CallSave
                  /\ pc' = "close"
             ELSE /\ UNCHANGED <<state, close_reason>>
                  /\ NoSave
                  /\ pc' = "refresh"
    /\ UNCHANGED <<run, exit_code, current_position, completed_cycles, last_error,
                   state_file, temp_file, os_errors, enable_stop_loss, leverage,
                   best, open_result, time_left, aster_size, lighter_size,
                   query_failed, close_orders, aster_closed, lighter_closed,
                   retry_pc, retry_attempt, initial_delay, calls, rate_limited,
                   sleeps, fetch_pc, fetch_attempt, lighter_semaphore,
                   aster_semaphore, scan_results, open_order, error_slept, signer,
                   api_client, quotes, legs, close_tasks, cumulative_stats,
                   unrecorded_legs, exit_pc, positions, matched_pairs,
                   confirmation, pairs_done, orders_sent>>

\* a refresh that also stores the size it finds displayed
StampedResized(position, now) ==
    [f \in DOMAIN position \cup {"last_table_refresh"} |->
        IF f = "last_table_refresh" THEN now
        ELSE IF f = "size_base" THEN 0 ELSE position[f]]

\* position["last_table_refresh"] = utc_now_iso(): the key is added or replaced
\* (the time is the number of check intervals left to target_close_at)
Stamped(position, now) ==
    [f \in DOMAIN position \cup {"last_table_refresh"} |->
        IF f = "last_table_refresh" THEN now ELSE position[f]]

\* the funding table refresh: position["last_table_refresh"] = utc_now_iso(); save()
\* when the refresh is due and fetch_and_display_funding_rates does not raise
Refresh ==
    /\ Running("refresh")
    /\ \E refreshed \in BOOLEAN :
          IF refreshed
          THEN current_position' = Stamped(current_position, time_left) /\ CallSave
          ELSE UNCHANGED current_position /\ NoSave
    /\ aster_pnl' = NoPnl
    /\ lighter_pnl' = NoPnl
    /\ worst_pnl' = NoWorst
    /\ pc' = "check_sleep"
    /\ UNCHANGED <<run, exit_code, state, completed_cycles, last_error, state_file,
                   temp_file, os_errors, enable_stop_loss, leverage, best,
                   open_result, time_left, aster_size, lighter_size, query_failed,
                   close_reason, close_orders, aster_closed, lighter_closed,
                   retry_pc, retry_attempt, initial_delay, calls, rate_limited,
                   sleeps, fetch_pc, fetch_attempt, lighter_semaphore,
                   aster_semaphore, scan_results, open_order, error_slept, signer,
                   api_client, quotes, legs, close_tasks, cumulative_stats,
                   unrecorded_legs, exit_pc, positions, matched_pairs,
                   confirmation, pairs_done, orders_sent>>

\* await asyncio.sleep(config.check_interval_seconds)
CheckSleep ==
    /\ Running("check_sleep")
    /\ time_left' = IF time_left > 0 THEN time_left - 1 ELSE 0
    /\ pc' = "loop"
    /\ NoSave
    /\ UNCHANGED <<run, exit_code, state, current_position, completed_cycles,
                   last_error, state_file, temp_file, os_errors, enable_stop_loss,
                   leverage, best, open_result, aster_size, lighter_size,
                   query_failed, aster_pnl, lighter_pnl, worst_pnl, close_reason,
                   close_orders, aster_closed, lighter_closed, retry_pc,
                   retry_attempt, initial_delay, calls, rate_limited, sleeps,
                   fetch_pc, fetch_attempt, lighter_semaphore, aster_semaphore,
                   scan_results, open_order, error_slept, signer, api_client,
                   quotes, legs, close_tasks, cumulative_stats, unrecorded_legs,
                   exit_pc, positions, matched_pairs, confirmation, pairs_done,
                   orders_sent>>

----------------------------------------------------------------------------
\* close_delta_neutral_position

\* l_amount_tick of the market, in 0.0001 base units
l_amount_tick == 1

\* the closing orders that are built from the sizes that were read
CloseTasks(a, l, ref_price) ==
    (IF Abs(l) > l_amount_tick /\ ref_price THEN {"Lighter"} ELSE {})
        \cup (IF Abs(a) > PosEps THEN {"Aster"} ELSE {})

\* aster_closed and lighter_closed of the re-verification
AsterClosed(a) == Abs(a) < PosEps
LighterClosed(l) == Abs(l) < l_amount_tick

\* clients, market details and the two open sizes; a raise here fails the close
ClosePrepare ==
    /\ Running("close")
    /\ \E failed \in BOOLEAN, a \in Sizes, l \in Sizes, ref_price \in BOOLEAN :
          IF failed
          THEN pc' = "close_failed" /\ UNCHANGED close_orders
          ELSE /\ close_orders' = CloseTasks(a, l, ref_price)
               /\ pc' = IF CloseTasks(a, l, ref_price) # {} THEN "close_orders"
                        ELSE "close_verify"
    /\ aster_pnl' = NoPnl
    /\ lighter_pnl' = NoPnl
    /\ NoSave
    /\ UNCHANGED <<run, exit_code, state, current_position, completed_cycles,
                   last_error, state_file, temp_file, os_errors, enable_stop_loss,
                   leverage, best, open_result, time_left, aster_size,
                   lighter_size, query_failed, worst_pnl, close_reason,
                   aster_closed, lighter_closed, retry_pc, retry_attempt,
                   initial_delay, calls, rate_limited, sleeps, fetch_pc,
                   fetch_attempt, lighter_semaphore, aster_semaphore, scan_results,
                   open_order, error_slept, signer, api_client, quotes, legs,
                   close_tasks, cumulative_stats, unrecorded_legs, exit_pc,
                   positions, matched_pairs, confirmation, pairs_done, orders_sent>>

\* results = await asyncio.gather(*tasks, return_exceptions=True); any error raises
CloseGather ==
    /\ Running("close_orders")
    /\ \E error \in BOOLEAN : pc' = IF error THEN "close_failed" ELSE "close_verify"
    /\ NoSave
    /\ UNCHANGED <<run, exit_code, state, current_position, completed_cycles,
                   last_error, state_file, temp_file, os_errors, enable_stop_loss,
                   leverage, best, open_result, time_left, aster_size,
                   lighter_size, query_failed, aster_pnl, lighter_pnl, worst_pnl,
                   close_reason, close_orders, aster_closed, lighter_closed,
                   retry_pc, retry_attempt, initial_delay, calls, rate_limited,
                   sleeps, fetch_pc, fetch_attempt, lighter_semaphore,
                   aster_semaphore, scan_results, open_order, error_slept, signer,
                   api_client, quotes, legs, close_tasks, cumulative_stats,
                   unrecorded_legs, exit_pc, positions, matched_pairs,
                   confirmation, pairs_done, orders_sent>>

\* await asyncio.sleep(2); the sizes are read again; the function returns whatever
\* they are (a query that raises fails the close)
CloseVerify ==
    /\ Running("close_verify")
    /\ \E failed \in BOOLEAN, a \in Sizes, l \in Sizes :
          IF failed
          THEN pc' = "close_failed" /\ UNCHANGED <<aster_closed, lighter_closed>>
          ELSE /\ pc' = "close_returned"
               /\ aster_closed' = AsterClosed(a)
               /\ lighter_closed' = LighterClosed(l)
    /\ NoSave
    /\ UNCHANGED <<run, exit_code, state, current_position, completed_cycles,
                   last_error, state_file, temp_file, os_errors, enable_stop_loss,
                   leverage, best, open_result, time_left, aster_size,
                   lighter_size, query_failed, aster_pnl, lighter_pnl, worst_pnl,
                   close_reason, close_orders, retry_pc, retry_attempt,
                   initial_delay, calls, rate_limited, sleeps, fetch_pc,
                   fetch_attempt, lighter_semaphore, aster_semaphore, scan_results,
                   open_order, error_slept, signer, api_client, quotes, legs,
                   close_tasks, cumulative_stats, unrecorded_legs, exit_pc,
                   positions, matched_pairs, confirmation, pairs_done, orders_sent>>

\* pnl_pct = (worst_pnl / position_value) * 100, in hundredths of a percent
\* (position values are whole multiples of 0.01 quote units)
PnlPct(worst_value, position_value) == (worst_value * 100) \div (position_value \div 100)

\* a CycleRecord; a key the record does not have is a PnL that is not available
CycleRecord(status, pnl_at_close, pnl_pct_at_close, worst_exchange) ==
    [status |-> status, pnl_at_close |-> pnl_at_close,
     pnl_pct_at_close |-> pnl_pct_at_close, worst_exchange |-> worst_exchange]

\* a cycle counted in total_cycles alone
CountedInTotal(stats, counter) == [stats EXCEPT !.total_cycles = @ + 1]

\* cumulative_stats["total_cycles"] += 1; cumulative_stats[counter] += 1
Counted(stats, counter) == [stats EXCEPT !.total_cycles = @ + 1, ![counter] = @ + 1]

\* timer close returned: append the cycle, clear the position, set_state(WAITING)
RecordSuccessIn(limit) ==
    /\ Running("close_returned")
    /\ close_reason = "timer"
    /\ Len(completed_cycles) < limit
    /\ completed_cycles' = Append(completed_cycles, CycleRecord("success", NoPnl, NoPnl, "None"))
    /\ cumulative_stats' = Counted(cumulative_stats, "successful_cycles")
    /\ current_position' = NoPosition
    /\ state' = "WAITING"
    /\ CallSave
    /\ pc' = "cooldown"
    /\ close_orders' = {}
    /\ aster_closed' = FALSE
    /\ lighter_closed' = FALSE
    /\ UNCHANGED <<run, exit_code, last_error, state_file, temp_file, os_errors,
                   enable_stop_loss, leverage, best, open_result, time_left,
                   aster_size, lighter_size, query_failed, aster_pnl, lighter_pnl,
                   worst_pnl, close_reason, retry_pc, retry_attempt, initial_delay,
                   calls, rate_limited, sleeps, fetch_pc, fetch_attempt,
                   lighter_semaphore, aster_semaphore, scan_results, open_order,
                   error_slept, signer, api_client, quotes, legs, close_tasks,
                   unrecorded_legs, exit_pc, positions, matched_pairs,
                   confirmation, pairs_done, orders_sent>>

RecordSuccess == RecordSuccessIn(MaxCycles)

\* stop-loss close returned: append the cycle, clear the position, save()
RecordStopLossIn(limit) ==
    /\ Running("close_returned")
    /\ close_reason = "stop-loss"
    /\ Len(completed_cycles) < limit
    /\ cumulative_stats' = Counted(cumulative_stats, "failed_cycles")
    /\ completed_cycles' =
          Append(completed_cycles,
                 CycleRecord("stop-loss", Pnl(worst_pnl.value),
                             Pnl(PnlPct(worst_pnl.value, PositionValue(current_position))),
                             worst_pnl.exchange))
    /\ current_position' = NoPosition
    /\ CallSave
    /\ pc' = "cooldown"
    /\ close_orders' = {}
    /\ aster_closed' = FALSE
    /\ lighter_closed' = FALSE
    /\ worst_pnl' = NoWorst
    /\ UNCHANGED <<run, exit_code, state, last_error, state_file, temp_file, os_errors,
                   enable_stop_loss, leverage, best, open_result, time_left,
                   aster_size, lighter_size, query_failed, aster_pnl, lighter_pnl,
                   close_reason, retry_pc, retry_attempt, initial_delay, calls,
                   rate_limited, sleeps, fetch_pc, fetch_attempt,
                   lighter_semaphore, aster_semaphore, scan_results, open_order,
                   error_slept, signer, api_client, quotes, legs, close_tasks,
                   unrecorded_legs, exit_pc, positions, matched_pairs,
                   confirmation, pairs_done, orders_sent>>

RecordStopLoss == RecordStopLossIn(MaxCycles)

\* await asyncio.sleep(wait_between_cycles_minutes * 60); set_state(BotState.IDLE)
Cooldown ==
    /\ Running("cooldown")
    /\ state' = "IDLE"
    /\ close_reason' = "none"
    /\ CallSave
    /\ pc' = "loop"
    /\ UNCHANGED <<run, exit_code, current_position, completed_cycles, last_error,
                   state_file, temp_file, os_errors, enable_stop_loss, leverage,
                   best, open_result, time_left, aster_size, lighter_size,
                   query_failed, aster_pnl, lighter_pnl, worst_pnl, close_orders,
                   aster_closed, lighter_closed, retry_pc, retry_attempt,
                   initial_delay, calls, rate_limited, sleeps, fetch_pc,
                   fetch_attempt, lighter_semaphore, aster_semaphore, scan_results,
                   open_order, error_slept, signer, api_client, quotes, legs,
                   close_tasks, cumulative_stats, unrecorded_legs, exit_pc,
                   positions, matched_pairs, confirmation, pairs_done, orders_sent>>

----------------------------------------------------------------------------
\* main(): the handlers around asyncio.run(main_loop(...))

\* positions of main_loop at which the process awaits
LoopPcs == {"start", "rec_read", "rec_valid", "rec_invalid", "loop", "scan", "wait_sleep", "open",
            "open_orders", "open_verify", "open_failed", "open_err_record", "err_sleep",
            "refresh", "check_sleep", "close", "close_orders", "close_verify",
            "close_returned", "close_failed", "close_err_record", "cooldown"}

\* except KeyboardInterrupt: set_state(BotState.SHUTDOWN)
Interrupt ==
    /\ save_pc = "none"
    /\ pc \in LoopPcs
    /\ state' = "SHUTDOWN"
    /\ CallSave
    /\ pc' = "shutdown_save"
    /\ LoopLeft
    /\ UNCHANGED <<run, exit_code, current_position, completed_cycles, last_error,
                   state_file, temp_file, os_errors, enable_stop_loss, leverage,
                   time_left, retry_pc, retry_attempt, initial_delay, calls,
                   rate_limited, sleeps, fetch_pc, fetch_attempt,
                   lighter_semaphore, aster_semaphore, scan_results,
                   cumulative_stats, unrecorded_legs, exit_pc, positions,
                   matched_pairs, confirmation, pairs_done, orders_sent>>

\* ... state_mgr.save() after set_state(SHUTDOWN)
ShutdownSave ==
    /\ Running("shutdown_save")
    /\ CallSave
    /\ pc' = "shutdown_exit"
    /\ UNCHANGED <<run, exit_code, state, current_position, completed_cycles,
                   last_error, state_file, temp_file, os_errors, enable_stop_loss,
                   leverage, best, open_result, time_left, aster_size,
                   lighter_size, query_failed, aster_pnl, lighter_pnl, worst_pnl,
                   close_reason, close_orders, aster_closed, lighter_closed,
                   retry_pc, retry_attempt, initial_delay, calls, rate_limited,
                   sleeps, fetch_pc, fetch_attempt, lighter_semaphore,
                   aster_semaphore, scan_results, open_order, error_slept, signer,
                   api_client, quotes, legs, close_tasks, cumulative_stats,
                   unrecorded_legs, exit_pc, positions, matched_pairs,
                   confirmation, pairs_done, orders_sent>>

\* except Exception: an exception left main_loop (the AsterApiManager could not be
\* built): set_state(BotState.ERROR)
Fatal ==
    /\ Running("start")
    /\ state' = "ERROR"
    /\ CallSave
    /\ pc' = "fatal_record"
    /\ LoopLeft
    /\ UNCHANGED <<run, exit_code, current_position, completed_cycles, last_error,
                   state_file, temp_file, os_errors, enable_stop_loss, leverage,
                   time_left, retry_pc, retry_attempt, initial_delay, calls,
                   rate_limited, sleeps, fetch_pc, fetch_attempt,
                   lighter_semaphore, aster_semaphore, scan_results,
                   cumulative_stats, unrecorded_legs, exit_pc, positions,
                   matched_pairs, confirmation, pairs_done, orders_sent>>

\* ... last_error = str(e); save()
FatalRecord ==
    /\ Running("fatal_record")
    /\ last_error' = TRUE
    /\ CallSave
    /\ pc' = "fatal_exit"
    /\ UNCHANGED <<run, exit_code, state, current_position, completed_cycles,
                   state_file, temp_file, os_errors, enable_stop_loss, leverage,
                   best, open_result, time_left, aster_size, lighter_size,
                   query_failed, aster_pnl, lighter_pnl, worst_pnl, close_reason,
                   close_orders, aster_closed, lighter_closed, retry_pc,
                   retry_attempt, initial_delay, calls, rate_limited, sleeps,
                   fetch_pc, fetch_attempt, lighter_semaphore, aster_semaphore,
                   scan_results, open_order, error_slept, signer, api_client,
                   quotes, legs, close_tasks, cumulative_stats, unrecorded_legs,
                   exit_pc, positions, matched_pairs, confirmation, pairs_done,
                   orders_sent>>

\* main returns (exit code 0) or sys.exit(1)
Exit ==
    /\ save_pc = "none"
    /\ pc \in {"shutdown_exit", "fatal_exit"}
    /\ exit_code' = IF pc = "fatal_exit" THEN 1 ELSE 0
    /\ pc' = "exited"
    /\ ProcessGone
    /\ UNCHANGED <<run, state_file, temp_file, os_errors, enable_stop_loss, leverage,
                   time_left, retry_pc, retry_attempt, initial_delay, calls,
                   rate_limited, sleeps, fetch_pc, fetch_attempt,
                   lighter_semaphore, aster_semaphore, scan_results,
                   unrecorded_legs, exit_pc, positions, matched_pairs,
                   confirmation, pairs_done, orders_sent>>

Next ==
    \/ Main
    \/ Kill
    \/ SaveOpenTemp
    \/ SaveWriteTemp
    \/ SaveReplace
    \/ SaveOSError
    \/ StartNoPosition
    \/ RecoverQueryError
    \/ RecoverQuery
    \/ Recover
    \/ RecoverSetState
    \/ LoopIdle
    \/ ScanNoCandidate
    \/ WaitSleep
    \/ ScanCandidate
    \/ OpenPrepare
    \/ OpenGather
    \/ OpenReturn
    \/ OperationFailed
    \/ ErrorRecord
    \/ ErrSleep
    \/ LoopError
    \/ LoopUnknown
    \/ LoopHoldingNoPosition
    \/ LoopHoldingExpired
    \/ Monitor
    \/ Refresh
    \/ CheckSleep
    \/ ClosePrepare
    \/ CloseGather
    \/ CloseVerify
    \/ RecordSuccess
    \/ RecordStopLoss
    \/ Cooldown
    \/ Interrupt
    \/ ShutdownSave
    \/ Fatal
    \/ FatalRecord
    \/ Exit

Spec == Init /\ [][Next]_vars

\* the state files a start may find: none, or one with any state value (one of
\* them no state the engine knows) with or without a position
StartStates == BotStates \cup {"PAUSED"}
StartFiles ==
    {NoFile} \cup
    {[kind |-> "json", state |-> s, current_position |-> p,
      completed_cycles |-> <<>>, last_error |-> FALSE, cumulative_stats |-> DefaultStats] :
        s \in StartStates, p \in {NoPosition, NewPosition("BTCUSDT", 3, 20, 50000)}}

FairInit == NotStarted /\ state_file \in StartFiles /\ AuxIdle

\* the steps of the process itself: everything but the signals and the start
EngineStep ==
    \/ SaveOpenTemp \/ SaveWriteTemp \/ SaveReplace \/ SaveOSError
    \/ StartNoPosition \/ RecoverQueryError \/ RecoverQuery \/ Recover \/ RecoverSetState
    \/ LoopIdle \/ ScanNoCandidate \/ WaitSleep \/ ScanCandidate
    \/ OpenPrepare \/ OpenGather \/ OpenReturn
    \/ OperationFailed \/ ErrorRecord \/ ErrSleep \/ LoopError \/ LoopUnknown
    \/ LoopHoldingNoPosition \/ LoopHoldingExpired \/ Monitor \/ Refresh \/ CheckSleep
    \/ ClosePrepare \/ CloseGather \/ CloseVerify
    \/ RecordSuccess \/ RecordStopLoss \/ Cooldown
    \/ Fatal \/ FatalRecord \/ Exit

\* a process that no signal reaches
FairNext == Main \/ EngineStep

\* the event loop keeps running the one task of main_loop, and every awaited call
\* and sleep returns: a step of the process that can be taken is taken
FairSpec == FairInit /\ [][FairNext]_vars /\ WF_vars(EngineStep)

\* a process that no signal reaches, followed through MaxStatCycles cycles
StatsNext ==
    \/ Main
    \/ SaveOpenTemp \/ SaveWriteTemp \/ SaveReplace
    \/ StartNoPosition
    \/ LoopIdle \/ ScanNoCandidate \/ WaitSleep \/ ScanCandidate
    \/ OpenPrepare \/ OpenGather \/ OpenReturn
    \/ OperationFailed \/ ErrorRecord \/ ErrSleep \/ LoopError
    \/ LoopHoldingExpired \/ Monitor \/ Refresh \/ CheckSleep
    \/ ClosePrepare \/ CloseGather \/ CloseVerify
    \/ RecordSuccessIn(MaxStatCycles) \/ RecordStopLossIn(MaxStatCycles) \/ Cooldown
    \/ Fatal \/ FatalRecord \/ Exit

StatsSpec == Init /\ [][StatsNext]_vars

\* the engine up to the store of the position it opens, with the legs its orders
\* leave on the venues, kills and restarts; failed opens are not followed
CrashNext ==
    \/ Main
    \/ Kill
    \/ SaveOpenTemp \/ SaveWriteTemp \/ SaveReplace \/ SaveOSError
    \/ StartNoPosition
    \/ LoopIdle \/ ScanNoCandidate \/ WaitSleep \/ ScanCandidate \/ LoopUnknown
    \/ OpenPrepare \/ OpenFilled \/ OpenRecorded

CrashSpec == Init /\ [][CrashNext]_vars

\* the engine started on any of the state files of LoadFiles
LoadSpec == LoadInit /\ [][Next]_vars

----------------------------------------------------------------------------
\* retry_with_backoff(func, max_retries=3, initial_delay, backoff_factor=2.0,
\* max_delay=30.0, jitter=True); delays count quarter seconds

max_retries == 3
backoff_factor == 2
max_delay == 120

\* initial_delay: the default 1.0 and the 2.0 fetch_symbol_funding passes
InitialDelays == {4, 8}

RECURSIVE Power(_, _)
Power(b, n) == IF n = 0 THEN 1 ELSE b * Power(b, n - 1)

\* min(initial_delay * (backoff_factor ** attempt), max_delay)
BaseDelay(initial, n) ==
    LET d == initial * Power(backoff_factor, n)
    IN  IF d < max_delay THEN d ELSE max_delay

\* delay + random.uniform(-jitter_range, jitter_range) with jitter_range = delay * 0.25:
\* the two ends and the middle of the range
JitteredDelays(d) == {d - d \div 4, d, d + d \div 4}

\* attempt > max_retries
ExhaustedLate(n) == n > max_retries

\* if attempt >= max_retries: raise RateLimitError
Exhausted(n) == n >= max_retries

RetryInit ==
    /\ EngineOff
    /\ FetchIdle
    /\ ScanIdle
    /\ OrderIdle
    /\ retry_pc = "call"
    /\ retry_attempt = 0
    /\ initial_delay \in InitialDelays
    /\ calls = 0
    /\ rate_limited = 0
    /\ sleeps = <<>>

\* result = await func(); return result
RetryCallReturns ==
    /\ retry_pc = "call"
    /\ calls' = calls + 1
    /\ retry_pc' = "returned"
    /\ UNCHANGED <<pc, run, exit_code, state, current_position, completed_cycles,
                   last_error, state_file, temp_file, save_pc, attempt, os_errors,
                   enable_stop_loss, leverage, best, open_result, time_left,
                   aster_size, lighter_size, query_failed, aster_pnl, lighter_pnl,
                   worst_pnl, close_reason, close_orders, aster_closed,
                   lighter_closed, retry_attempt, initial_delay, rate_limited,
                   sleeps, fetch_pc, fetch_attempt, lighter_semaphore,
                   aster_semaphore, scan_results, open_order, error_slept, signer,
                   api_client, quotes, legs, close_tasks, save_error, save_sleeps,
                   cumulative_stats, unrecorded_legs, exit_pc, positions,
                   matched_pairs, confirmation, pairs_done, orders_sent>>

\* func raises an error that is no rate-limit error: raise
RetryCallFails ==
    /\ retry_pc = "call"
    /\ calls' = calls + 1
    /\ retry_pc' = "raised"
    /\ UNCHANGED <<pc, run, exit_code, state, current_position, completed_cycles,
                   last_error, state_file, temp_file, save_pc, attempt, os_errors,
                   enable_stop_loss, leverage, best, open_result, time_left,
                   aster_size, lighter_size, query_failed, aster_pnl, lighter_pnl,
                   worst_pnl, close_reason, close_orders, aster_closed,
                   lighter_closed, retry_attempt, initial_delay, rate_limited,
                   sleeps, fetch_pc, fetch_attempt, lighter_semaphore,
                   aster_semaphore, scan_results, open_order, error_slept, signer,
                   api_client, quotes, legs, close_tasks, save_error, save_sleeps,
                   cumulative_stats, unrecorded_legs, exit_pc, positions,
                   matched_pairs, confirmation, pairs_done, orders_sent>>

\* func raises a rate-limit error: RateLimitError when exhausted, else the delay
RetryCallRateLimited ==
    /\ retry_pc = "call"
    /\ calls' = calls + 1
    /\ rate_limited' = rate_limited + 1
    /\ retry_pc' = IF Exhausted(retry_attempt) THEN "rate_limit_error" ELSE "sleep"
    /\ UNCHANGED <<pc, run, exit_code, state, current_position, completed_cycles,
                   last_error, state_file, temp_file, save_pc, attempt, os_errors,
                   enable_stop_loss, leverage, best, open_result, time_left,
                   aster_size, lighter_size, query_failed, aster_pnl, lighter_pnl,
                   worst_pnl, close_reason, close_orders, aster_closed,
                   lighter_closed, retry_attempt, initial_delay, sleeps, fetch_pc,
                   fetch_attempt, lighter_semaphore, aster_semaphore, scan_results,
                   open_order, error_slept, signer, api_client, quotes, legs,
                   close_tasks, save_error, save_sleeps, cumulative_stats,
                   unrecorded_legs, exit_pc, positions, matched_pairs,
                   confirmation, pairs_done, orders_sent>>

\* await asyncio.sleep(delay); the next iteration of for attempt in
\* range(max_retries + 1), or raise last_exception after the loop
RetrySleep ==
    /\ retry_pc = "sleep"
    /\ \E d \in JitteredDelays(BaseDelay(initial_delay, retry_attempt)) :
          sleeps' = Append(sleeps, d)
    /\ retry_attempt' = retry_attempt + 1
    /\ retry_pc' = IF retry_attempt + 1 < max_retries + 1 THEN "call" ELSE "raised"
    /\ UNCHANGED <<pc, run, exit_code, state, current_position, completed_cycles,
                   last_error, state_file, temp_file, save_pc, attempt, os_errors,
                   enable_stop_loss, leverage, best, open_result, time_left,
                   aster_size, lighter_size, query_failed, aster_pnl, lighter_pnl,
                   worst_pnl, close_reason, close_orders, aster_closed,
                   lighter_closed, initial_delay, calls, rate_limited, fetch_pc,
                   fetch_attempt, lighter_semaphore, aster_semaphore, scan_results,
                   open_order, error_slept, signer, api_client, quotes, legs,
                   close_tasks, save_error, save_sleeps, cumulative_stats,
                   unrecorded_legs, exit_pc, positions, matched_pairs,
                   confirmation, pairs_done, orders_sent>>

RetryNext ==
    \/ RetryCallReturns
    \/ RetryCallFails
    \/ RetryCallRateLimited
    \/ RetrySleep

RetrySpec == RetryInit /\ [][RetryNext]_vars

----------------------------------------------------------------------------
\* The fan-out of one scanner pass: fetch_with_timeout per symbol, each running
\* fetch_symbol_funding, which gathers fetch_aster_rate, fetch_lighter_rate and
\* fetch_symbol_spread (fetch_aster_mid and fetch_lighter_mid)

\* config.symbols_to_monitor, in the order of the staggered starts
symbols_to_monitor == <<"BTCUSDT", "ETHUSDT">>

IsLighter(c) == c[2] \in {"lighter_rate", "lighter_mid"}
IsAster(c) == c[2] \in {"aster_rate", "aster_mid"}

\* the coroutines with a venue call in flight
LighterInFlight == {c \in Coroutines : IsLighter(c) /\ fetch_pc[c] \in {"details", "data"}}
AsterInFlight == {c \in Coroutines : IsAster(c) /\ fetch_pc[c] = "call"}

\* an acquire that never blocks
SlotAlwaysFree(semaphore) == TRUE

\* async with LIGHTER_API_SEMAPHORE: the acquire blocks while the value is 0
LighterSlotFree(semaphore) == semaphore > 0

\* the Aster API manager admits a call while it has a free slot
AsterSlotFree(semaphore) == semaphore > 0

FetchInit ==
    /\ EngineOff
    /\ RetryIdle
    /\ ScanIdle
    /\ OrderIdle
    /\ fetch_pc = [c \in Coroutines |-> "delay"]
    /\ fetch_attempt = [s \in Symbols |-> 0]
    /\ lighter_semaphore = lighter_api_slots
    /\ aster_semaphore = aster_api_slots

Started(s) == \A k \in FetchKinds : fetch_pc[<<s, k>>] # "delay"

\* await asyncio.sleep(idx * stagger_delay) is over: fetch_symbol_funding starts
\* its coroutines, later symbols after earlier ones
FetchStart(i) ==
    /\ ~Started(symbols_to_monitor[i])
    /\ \A j \in 1..(i - 1) : Started(symbols_to_monitor[j])
    /\ fetch_pc' = [c \in Coroutines |->
                      IF c[1] = symbols_to_monitor[i] THEN "acquire" ELSE fetch_pc[c]]
    /\ UNCHANGED <<pc, run, exit_code, state, current_position, completed_cycles,
                   last_error, state_file, temp_file, save_pc, attempt, os_errors,
                   enable_stop_loss, leverage, best, open_result, time_left,
                   aster_size, lighter_size, query_failed, aster_pnl, lighter_pnl,
                   worst_pnl, close_reason, close_orders, aster_closed,
                   lighter_closed, retry_pc, retry_attempt, initial_delay, calls,
                   rate_limited, sleeps, fetch_attempt, lighter_semaphore,
                   aster_semaphore, scan_results, open_order, error_slept, signer,
                   api_client, quotes, legs, close_tasks, save_error, save_sleeps,
                   cumulative_stats, unrecorded_legs, exit_pc, positions,
                   matched_pairs, confirmation, pairs_done, orders_sent>>

\* async with LIGHTER_API_SEMAPHORE: entered, get_lighter_market_details is called
LighterAcquire(c) ==
    /\ IsLighter(c)
    /\ fetch_pc[c] = "acquire"
    /\ LighterSlotFree(lighter_semaphore)
    /\ lighter_semaphore' = lighter_semaphore - 1
    /\ fetch_pc' = [fetch_pc EXCEPT ![c] = "details"]
    /\ UNCHANGED <<pc, run, exit_code, state, current_position, completed_cycles,
                   last_error, state_file, temp_file, save_pc, attempt, os_errors,
                   enable_stop_loss, leverage, best, open_result, time_left,
                   aster_size, lighter_size, query_failed, aster_pnl, lighter_pnl,
                   worst_pnl, close_reason, close_orders, aster_closed,
                   lighter_closed, retry_pc, retry_attempt, initial_delay, calls,
                   rate_limited, sleeps, fetch_attempt, aster_semaphore,
                   scan_results, open_order, error_slept, signer, api_client,
                   quotes, legs, close_tasks, save_error, save_sleeps,
                   cumulative_stats, unrecorded_legs, exit_pc, positions,
                   matched_pairs, confirmation, pairs_done, orders_sent>>

\* get_lighter_market_details returns: the funding rate, or the best bid and ask,
\* is requested
LighterDetails(c) ==
    /\ IsLighter(c)
    /\ fetch_pc[c] = "details"
    /\ fetch_pc' = [fetch_pc EXCEPT ![c] = "data"]
    /\ UNCHANGED <<pc, run, exit_code, state, current_position, completed_cycles,
                   last_error, state_file, temp_file, save_pc, attempt, os_errors,
                   enable_stop_loss, leverage, best, open_result, time_left,
                   aster_size, lighter_size, query_failed, aster_pnl, lighter_pnl,
                   worst_pnl, close_reason, close_orders, aster_closed,
                   lighter_closed, retry_pc, retry_attempt, initial_delay, calls,
                   rate_limited, sleeps, fetch_attempt, lighter_semaphore,
                   aster_semaphore, scan_results, open_order, error_slept, signer,
                   api_client, quotes, legs, close_tasks, save_error, save_sleeps,
                   cumulative_stats, unrecorded_legs, exit_pc, positions,
                   matched_pairs, confirmation, pairs_done, orders_sent>>

\* the second call returns: the block is left, the coroutine returns its value
LighterData(c) ==
    /\ IsLighter(c)
    /\ fetch_pc[c] = "data"
    /\ lighter_semaphore' = lighter_semaphore + 1
    /\ fetch_pc' = [fetch_pc EXCEPT ![c] = "done"]
    /\ UNCHANGED <<pc, run, exit_code, state, current_position, completed_cycles,
                   last_error, state_file, temp_file, save_pc, attempt, os_errors,
                   enable_stop_loss, leverage, best, open_result, time_left,
                   aster_size, lighter_size, query_failed, aster_pnl, lighter_pnl,
                   worst_pnl, close_reason, close_orders, aster_closed,
                   lighter_closed, retry_pc, retry_attempt, initial_delay, calls,
                   rate_limited, sleeps, fetch_attempt, aster_semaphore,
                   scan_results, open_order, error_slept, signer, api_client,
                   quotes, legs, close_tasks, save_error, save_sleeps,
                   cumulative_stats, unrecorded_legs, exit_pc, positions,
                   matched_pairs, confirmation, pairs_done, orders_sent>>

\* a retry loop inside the block: the slot is kept through the backoff
LighterRaisesHolding(c) ==
    /\ IsLighter(c)
    /\ fetch_pc[c] \in {"details", "data"}
    /\ \E is_rate_limit \in BOOLEAN :
          LET retried == /\ c[2] = "lighter_rate"
                         /\ is_rate_limit
                         /\ ~Exhausted(fetch_attempt[c[1]])
          IN  /\ lighter_semaphore' = IF retried THEN lighter_semaphore
                                      ELSE lighter_semaphore + 1
              /\ fetch_pc' = [fetch_pc EXCEPT ![c] = IF retried THEN "sleep" ELSE "done"]
    /\ UNCHANGED <<pc, run, exit_code, state, current_position, completed_cycles,
                   last_error, state_file, temp_file, save_pc, attempt, os_errors,
                   enable_stop_loss, leverage, best, open_result, time_left,
                   aster_size, lighter_size, query_failed, aster_pnl, lighter_pnl,
                   worst_pnl, close_reason, close_orders, aster_closed,
                   lighter_closed, retry_pc, retry_attempt, initial_delay, calls,
                   rate_limited, sleeps, fetch_attempt, aster_semaphore,
                   scan_results, open_order, error_slept, signer, api_client,
                   quotes, legs, close_tasks, save_error, save_sleeps,
                   cumulative_stats, unrecorded_legs, exit_pc, positions,
                   matched_pairs, confirmation, pairs_done, orders_sent>>

\* a Lighter call raises: the block is left; fetch_lighter_mid returns None, and
\* so does fetch_lighter_rate unless the error is a rate limit with retries left
LighterRaises(c) ==
    /\ IsLighter(c)
    /\ fetch_pc[c] \in {"details", "data"}
    /\ lighter_semaphore' = lighter_semaphore + 1
    /\ \E is_rate_limit \in BOOLEAN :
          fetch_pc' = [fetch_pc EXCEPT ![c] =
                         IF /\ c[2] = "lighter_rate"
                            /\ is_rate_limit
                            /\ ~Exhausted(fetch_attempt[c[1]])
                         THEN "sleep" ELSE "done"]
    /\ UNCHANGED <<pc, run, exit_code, state, current_position, completed_cycles,
                   last_error, state_file, temp_file, save_pc, attempt, os_errors,
                   enable_stop_loss, leverage, best, open_result, time_left,
                   aster_size, lighter_size, query_failed, aster_pnl, lighter_pnl,
                   worst_pnl, close_reason, close_orders, aster_closed,
                   lighter_closed, retry_pc, retry_attempt, initial_delay, calls,
                   rate_limited, sleeps, fetch_attempt, aster_semaphore,
                   scan_results, open_order, error_slept, signer, api_client,
                   quotes, legs, close_tasks, save_error, save_sleeps,
                   cumulative_stats, unrecorded_legs, exit_pc, positions,
                   matched_pairs, confirmation, pairs_done, orders_sent>>

\* retry_with_backoff has slept: _fetch_with_semaphore is called again
LighterRetry(c) ==
    /\ fetch_pc[c] = "sleep"
    /\ fetch_attempt' = [fetch_attempt EXCEPT ![c[1]] = @ + 1]
    /\ fetch_pc' = [fetch_pc EXCEPT ![c] = "acquire"]
    /\ UNCHANGED <<pc, run, exit_code, state, current_position, completed_cycles,
                   last_error, state_file, temp_file, save_pc, attempt, os_errors,
                   enable_stop_loss, leverage, best, open_result, time_left,
                   aster_size, lighter_size, query_failed, aster_pnl, lighter_pnl,
                   worst_pnl, close_reason, close_orders, aster_closed,
                   lighter_closed, retry_pc, retry_attempt, initial_delay, calls,
                   rate_limited, sleeps, lighter_semaphore, aster_semaphore,
                   scan_results, open_order, error_slept, signer, api_client,
                   quotes, legs, close_tasks, save_error, save_sleeps,
                   cumulative_stats, unrecorded_legs, exit_pc, positions,
                   matched_pairs, confirmation, pairs_done, orders_sent>>

\* aster.get_funding_rate_history or aster.get_perp_book_ticker is admitted
AsterAcquire(c) ==
    /\ IsAster(c)
    /\ fetch_pc[c] = "acquire"
    /\ AsterSlotFree(aster_semaphore)
    /\ aster_semaphore' = aster_semaphore - 1
    /\ fetch_pc' = [fetch_pc EXCEPT ![c] = "call"]
    /\ UNCHANGED <<pc, run, exit_code, state, current_position, completed_cycles,
                   last_error, state_file, temp_file, save_pc, attempt, os_errors,
                   enable_stop_loss, leverage, best, open_result, time_left,
                   aster_size, lighter_size, query_failed, aster_pnl, lighter_pnl,
                   worst_pnl, close_reason, close_orders, aster_closed,
                   lighter_closed, retry_pc, retry_attempt, initial_delay, calls,
                   rate_limited, sleeps, fetch_attempt, lighter_semaphore,
                   scan_results, open_order, error_slept, signer, api_client,
                   quotes, legs, close_tasks, save_error, save_sleeps,
                   cumulative_stats, unrecorded_legs, exit_pc, positions,
                   matched_pairs, confirmation, pairs_done, orders_sent>>

\* the Aster call returns or raises: the coroutine returns its value or None
AsterReturn(c) ==
    /\ IsAster(c)
    /\ fetch_pc[c] = "call"
    /\ aster_semaphore' = aster_semaphore + 1
    /\ fetch_pc' = [fetch_pc EXCEPT ![c] = "done"]
    /\ UNCHANGED <<pc, run, exit_code, state, current_position, completed_cycles,
                   last_error, state_file, temp_file, save_pc, attempt, os_errors,
                   enable_stop_loss, leverage, best, open_result, time_left,
                   aster_size, lighter_size, query_failed, aster_pnl, lighter_pnl,
                   worst_pnl, close_reason, close_orders, aster_closed,
                   lighter_closed, retry_pc, retry_attempt, initial_delay, calls,
                   rate_limited, sleeps, fetch_attempt, lighter_semaphore,
                   scan_results, open_order, error_slept, signer, api_client,
                   quotes, legs, close_tasks, save_error, save_sleeps,
                   cumulative_stats, unrecorded_legs, exit_pc, positions,
                   matched_pairs, confirmation, pairs_done, orders_sent>>

\* asyncio.wait_for(fetch_symbol_funding(...), timeout): the coroutines of the
\* symbol are cancelled and leave the blocks they are in
FetchTimeout(s) ==
    /\ Started(s)
    /\ \E k \in FetchKinds : fetch_pc[<<s, k>>] # "done"
    /\ lighter_semaphore' = lighter_semaphore
                              + Cardinality({c \in LighterInFlight : c[1] = s})
    /\ aster_semaphore' = aster_semaphore
                            + Cardinality({c \in AsterInFlight : c[1] = s})
    /\ fetch_pc' = [c \in Coroutines |-> IF c[1] = s THEN "done" ELSE fetch_pc[c]]
    /\ UNCHANGED <<pc, run, exit_code, state, current_position, completed_cycles,
                   last_error, state_file, temp_file, save_pc, attempt, os_errors,
                   enable_stop_loss, leverage, best, open_result, time_left,
                   aster_size, lighter_size, query_failed, aster_pnl, lighter_pnl,
                   worst_pnl, close_reason, close_orders, aster_closed,
                   lighter_closed, retry_pc, retry_attempt, initial_delay, calls,
                   rate_limited, sleeps, fetch_attempt, scan_results, open_order,
                   error_slept, signer, api_client, quotes, legs, close_tasks,
                   save_error, save_sleeps, cumulative_stats, unrecorded_legs,
                   exit_pc, positions, matched_pairs, confirmation, pairs_done,
                   orders_sent>>

FetchNext ==
    \/ \E i \in 1..Len(symbols_to_monitor) : FetchStart(i)
    \/ \E c \in Coroutines : LighterAcquire(c)
    \/ \E c \in Coroutines : LighterDetails(c)
    \/ \E c \in Coroutines : LighterData(c)
    \/ \E c \in Coroutines : LighterRaises(c)
    \/ \E c \in Coroutines : LighterRetry(c)
    \/ \E c \in Coroutines : AsterAcquire(c)
    \/ \E c \in Coroutines : AsterReturn(c)
    \/ \E s \in Symbols : FetchTimeout(s)

FetchSpec == FetchInit /\ [][FetchNext]_vars

\* the event loop runs a coroutine that can run; venue calls and sleeps return
FetchFairSpec == FetchInit /\ [][FetchNext]_vars /\ WF_vars(FetchNext)

----------------------------------------------------------------------------
\* The values of one scanner pass: fetch_symbol_spread, fetch_symbol_funding and
\* the selection of main_loop. Funding rates count millionths, APRs millionths
\* of a percent, max_spread_pct hundredths of a percent

\* an Optional value: None, or the value
None == {}
Some(v) == {v}
Get(o) == CHOOSE v \in o : TRUE

\* what the venues answer in a pass
AsterRates == {None, Some(50)}
LighterRates == {None, Some(-100), Some(100), Some(110), Some(200)}
AsterMids == {None, Some(4003)}
LighterMids == {None, Some(3991), Some(3997)}

min_net_apr_threshold == 5000000
max_spread_pct == 15

\* spread_pct = (price_diff / avg_mid) * 100 as the fraction num / den, None
\* when a mid is missing
fetch_symbol_spread(aster_mid, lighter_mid) ==
    IF aster_mid = None \/ lighter_mid = None
    THEN None
    ELSE Some([num |-> Abs(Get(aster_mid) - Get(lighter_mid)) * 2 * 100,
               den |-> Get(aster_mid) + Get(lighter_mid)])

\* spread_pct >= max_spread_pct
SpreadReaches(spread_pct) ==
    spread_pct # None /\ Get(spread_pct).num * 100 >= max_spread_pct * Get(spread_pct).den

\* spread_pct is not None and spread_pct > max_spread_pct
SpreadExceeds(spread_pct) ==
    spread_pct # None /\ Get(spread_pct).num * 100 > max_spread_pct * Get(spread_pct).den

\* rate * periods_per_day * 365 * 100.0
calculate_apr(rate, periods_per_day) == rate * periods_per_day * 365 * 100

\* the result of a symbol that is not available
Unavailable(symbol, reason, aster_rate, lighter_rate, aster_mid, lighter_mid) ==
    [symbol |-> symbol, available |-> FALSE, excluded_reason |-> reason,
     aster_rate |-> aster_rate, lighter_rate |-> lighter_rate,
     aster_mid |-> aster_mid, lighter_mid |-> lighter_mid,
     spread_pct |-> fetch_symbol_spread(aster_mid, lighter_mid),
     aster_apr |-> None, lighter_apr |-> None,
     long_exch |-> "None", short_exch |-> "None", net_apr |-> None]

\* a direction that is long Aster whatever the APRs
LongAsterAlways(aster_apr, lighter_apr) ==
    [long_exch |-> "Aster", short_exch |-> "Lighter", net_apr |-> lighter_apr - aster_apr]

\* long_aster_short_lighter >= long_lighter_short_aster decides the direction
Direction(aster_apr, lighter_apr) ==
    LET long_aster_short_lighter == lighter_apr - aster_apr
        long_lighter_short_aster == aster_apr - lighter_apr
    IN  IF long_aster_short_lighter >= long_lighter_short_aster
        THEN [long_exch |-> "Aster", short_exch |-> "Lighter",
              net_apr |-> long_aster_short_lighter]
        ELSE [long_exch |-> "Lighter", short_exch |-> "Aster",
              net_apr |-> long_lighter_short_aster]

\* fetch_symbol_funding, from what its three coroutines returned
fetch_symbol_funding(symbol, aster_rate, lighter_rate, aster_mid, lighter_mid) ==
    LET spread_pct == fetch_symbol_spread(aster_mid, lighter_mid)
    IN  IF aster_rate = None \/ lighter_rate = None
        THEN Unavailable(symbol, "missing", aster_rate, lighter_rate,
                         aster_mid, lighter_mid)
        ELSE IF SpreadExceeds(spread_pct)
        THEN Unavailable(symbol, "spread", aster_rate, lighter_rate,
                         aster_mid, lighter_mid)
        ELSE LET aster_apr == calculate_apr(Get(aster_rate), 6)
                 lighter_apr == calculate_apr(Get(lighter_rate), 3)
                 dir == Direction(aster_apr, lighter_apr)
             IN  [symbol |-> symbol, available |-> TRUE, excluded_reason |-> "none",
                  aster_rate |-> aster_rate, lighter_rate |-> lighter_rate,
                  aster_mid |-> aster_mid, lighter_mid |-> lighter_mid,
                  spread_pct |-> spread_pct,
                  aster_apr |-> Some(aster_apr), lighter_apr |-> Some(lighter_apr),
                  long_exch |-> dir.long_exch, short_exch |-> dir.short_exch,
                  net_apr |-> Some(dir.net_apr)]

\* results of asyncio.gather, in the order of symbols_to_monitor
Results == [i \in 1..Len(symbols_to_monitor) |-> scan_results[symbols_to_monitor[i]]]

\* [r for r in results if isinstance(r, dict) and r.get("available", False)]
Available == SelectSeq(Results, LAMBDA r : r.available)

\* the place of r in a list sorted by net_apr, largest first, behind its equals
RECURSIVE Insert(_, _)
Insert(r, sorted) ==
    IF sorted = <<>> THEN <<r>>
    ELSE IF Get(Head(sorted).net_apr) >= Get(r.net_apr)
         THEN <<Head(sorted)>> \o Insert(r, Tail(sorted))
         ELSE <<r>> \o sorted

\* available.sort(key=lambda x: x["net_apr"], reverse=True)
RECURSIVE Sorted(_)
Sorted(list) ==
    IF list = <<>> THEN <<>>
    ELSE Insert(list[Len(list)], Sorted(SubSeq(list, 1, Len(list) - 1)))

\* a filter that lets every available result through
AllOf(list) == list

\* [r for r in available if r["net_apr"] >= config.min_net_apr_threshold]
Candidates(list) == SelectSeq(list, LAMBDA r : Get(r.net_apr) >= min_net_apr_threshold)

\* fetch_with_timeout(symbol) returns what fetch_symbol_funding made of the
\* venues' answers
ScanFetch(s) ==
    /\ Running("scan")
    /\ s \notin DOMAIN scan_results
    /\ \E aster_rate \in AsterRates, lighter_rate \in LighterRates,
          aster_mid \in AsterMids, lighter_mid \in LighterMids :
          scan_results' = [x \in DOMAIN scan_results \cup {s} |->
              IF x = s
              THEN fetch_symbol_funding(s, aster_rate, lighter_rate, aster_mid, lighter_mid)
              ELSE scan_results[x]]
    /\ NoSave
    /\ UNCHANGED <<pc, run, exit_code, state, current_position, completed_cycles,
                   last_error, state_file, temp_file, os_errors, enable_stop_loss,
                   leverage, best, open_result, time_left, aster_size,
                   lighter_size, query_failed, aster_pnl, lighter_pnl, worst_pnl,
                   close_reason, close_orders, aster_closed, lighter_closed,
                   retry_pc, retry_attempt, initial_delay, calls, rate_limited,
                   sleeps, fetch_pc, fetch_attempt, lighter_semaphore,
                   aster_semaphore, open_order, error_slept, signer, api_client,
                   quotes, legs, close_tasks, cumulative_stats, unrecorded_legs,
                   exit_pc, positions, matched_pairs, confirmation, pairs_done,
                   orders_sent>>

\* a timeout that cancels the whole gather
ScanTimeoutAll(s) ==
    /\ Running("scan")
    /\ s \notin DOMAIN scan_results
    /\ scan_results' = [x \in Symbols |-> Unavailable(x, "timeout", None, None, None, None)]
    /\ NoSave
    /\ UNCHANGED <<pc, run, exit_code, state, current_position, completed_cycles,
                   last_error, state_file, temp_file, os_errors, enable_stop_loss,
                   leverage, best, open_result, time_left, aster_size,
                   lighter_size, query_failed, aster_pnl, lighter_pnl, worst_pnl,
                   close_reason, close_orders, aster_closed, lighter_closed,
                   retry_pc, retry_attempt, initial_delay, calls, rate_limited,
                   sleeps, fetch_pc, fetch_attempt, lighter_semaphore,
                   aster_semaphore, open_order, error_slept, signer, api_client,
                   quotes, legs, close_tasks, cumulative_stats, unrecorded_legs,
                   exit_pc, positions, matched_pairs, confirmation, pairs_done,
                   orders_sent>>

\* except asyncio.TimeoutError: {"symbol", "available": False, "error": "timeout"}
ScanTimeout(s) ==
    /\ Running("scan")
    /\ s \notin DOMAIN scan_results
    /\ scan_results' = [x \in DOMAIN scan_results \cup {s} |->
          IF x = s THEN Unavailable(s, "timeout", None, None, None, None)
          ELSE scan_results[x]]
    /\ NoSave
    /\ UNCHANGED <<pc, run, exit_code, state, current_position, completed_cycles,
                   last_error, state_file, temp_file, os_errors, enable_stop_loss,
                   leverage, best, open_result, time_left, aster_size,
                   lighter_size, query_failed, aster_pnl, lighter_pnl, worst_pnl,
                   close_reason, close_orders, aster_closed, lighter_closed,
                   retry_pc, retry_attempt, initial_delay, calls, rate_limited,
                   sleeps, fetch_pc, fetch_attempt, lighter_semaphore,
                   aster_semaphore, open_order, error_slept, signer, api_client,
                   quotes, legs, close_tasks, cumulative_stats, unrecorded_legs,
                   exit_pc, positions, matched_pairs, confirmation, pairs_done,
                   orders_sent>>

\* if not available / if not candidates: set_state(BotState.WAITING)
ScanWait ==
    /\ Running("scan")
    /\ DOMAIN scan_results = Symbols
    /\ Available = <<>> \/ Candidates(Sorted(Available)) = <<>>
    /\ state' = NoCandidateState
    /\ CallSave
    /\ pc' = "wait_sleep"
    /\ UNCHANGED <<run, exit_code, current_position, completed_cycles, last_error,
                   state_file, temp_file, os_errors, enable_stop_loss, leverage,
                   best, open_result, time_left, aster_size, lighter_size,
                   query_failed, aster_pnl, lighter_pnl, worst_pnl, close_reason,
                   close_orders, aster_closed, lighter_closed, retry_pc,
                   retry_attempt, initial_delay, calls, rate_limited, sleeps,
                   fetch_pc, fetch_attempt, lighter_semaphore, aster_semaphore,
                   scan_results, open_order, error_slept, signer, api_client,
                   quotes, legs, close_tasks, cumulative_stats, unrecorded_legs,
                   exit_pc, positions, matched_pairs, confirmation, pairs_done,
                   orders_sent>>

\* best = candidates[0]; set_state(BotState.OPENING)
ScanOpen ==
    /\ Running("scan")
    /\ DOMAIN scan_results = Symbols
    /\ Available # <<>>
    /\ Candidates(Sorted(Available)) # <<>>
    /\ best' = Candidates(Sorted(Available))[1].symbol
    /\ state' = "OPENING"
    /\ CallSave
    /\ pc' = "open"
    /\ UNCHANGED <<run, exit_code, current_position, completed_cycles, last_error,
                   state_file, temp_file, os_errors, enable_stop_loss, leverage,
                   open_result, time_left, aster_size, lighter_size, query_failed,
                   aster_pnl, lighter_pnl, worst_pnl, close_reason, close_orders,
                   aster_closed, lighter_closed, retry_pc, retry_attempt,
                   initial_delay, calls, rate_limited, sleeps, fetch_pc,
                   fetch_attempt, lighter_semaphore, aster_semaphore, scan_results,
                   open_order, error_slept, signer, api_client, quotes, legs,
                   close_tasks, cumulative_stats, unrecorded_legs, exit_pc,
                   positions, matched_pairs, confirmation, pairs_done, orders_sent>>

\* the first start of the engine up to the open of its first scanner pass
ScanNext ==
    \/ Main
    \/ SaveOpenTemp
    \/ SaveWriteTemp
    \/ SaveReplace
    \/ SaveOSError
    \/ StartNoPosition
    \/ LoopIdle
    \/ \E s \in Symbols : ScanFetch(s)
    \/ \E s \in Symbols : ScanTimeout(s)
    \/ ScanWait
    \/ ScanOpen

ScanSpec == Init /\ [][ScanNext]_vars

----------------------------------------------------------------------------
\* The engine with the sizing of open_delta_neutral_position: sizes and amount
\* ticks count 0.0001 base units, notional and mids count quote units

\* what an open is called with and what the venues report
SizingNotionals == {notional_per_position}
SizingMids == {50000, 3000}
AmountTicks == {1, 10, 30}

\* avg_mid / size_quote rounded down to a multiple of tick
InverseFloorSize(avg_mid, size_quote, tick) ==
    ((avg_mid * 10000) \div (size_quote * tick)) * tick

\* compute_base_size_from_quote with the _floor_to_tick that follows it:
\* size_quote / avg_mid rounded down to a multiple of tick
FloorSize(avg_mid, size_quote, tick) == ((size_quote * 10000) \div (avg_mid * tick)) * tick

\* quantize(Decimal('1'), rounding=ROUND_DOWN) * d_tick
floor_to_tick(value, tick) == (value \div tick) * tick

\* quantize(Decimal('1'), rounding=ROUND_HALF_UP) * d_tick
round_to_tick(value, tick) == ((2 * value + tick) \div (2 * tick)) * tick

Min(a, b) == IF a < b THEN a ELSE b
Max(a, b) == IF a > b THEN a ELSE b

\* the finer of the two amount ticks
FinerTick(l_tick, a_tick) == Min(l_tick, a_tick)

\* coarser_tick = max(l_amount_tick, aster_step_size)
CoarserTick(l_tick, a_tick) == Max(l_tick, a_tick)

\* size_base of open_delta_neutral_position before its checks
SizeBase(avg_mid, notional_quote, l_tick, a_tick) ==
    LET coarser_tick == CoarserTick(l_tick, a_tick)
        size_base == FloorSize(avg_mid, notional_quote, coarser_tick)
        lighter_rounded == round_to_tick(size_base, l_tick)
        aster_rounded == round_to_tick(size_base, a_tick)
    IN  IF Abs(lighter_rounded - aster_rounded) > Min(l_tick, a_tick)
        THEN floor_to_tick(size_base, coarser_tick)
        ELSE size_base

\* the RuntimeError of the size checks: "Computed size rounds to zero" or
\* "Order size too small"
SizeError(size_base, l_tick, a_tick) ==
    IF size_base <= 0 THEN "zero"
    ELSE IF size_base < l_tick * 10 \/ size_base < a_tick * 10 THEN "too_small"
    ELSE "none"

\* open_delta_neutral_position up to the order tasks: clients, quotes, leverage
\* (any raise there fails the open with nothing computed), then the sizing
OpenSizing ==
    /\ Running("open")
    /\ open_result' = "none"
    /\ \/ /\ pc' = "open_failed"
          /\ open_order' = NoOrder
       \/ \E notional \in SizingNotionals, avg_mid \in SizingMids,
             l_tick \in AmountTicks, a_tick \in AmountTicks :
             LET size_base == SizeBase(avg_mid, notional, l_tick, a_tick)
                 error == SizeError(size_base, l_tick, a_tick)
             IN  /\ open_order' =
                       [notional |-> notional, avg_mid |-> avg_mid, l_tick |-> l_tick,
                        a_tick |-> a_tick, size_base |-> size_base, error |-> error,
                        aster_qty |-> 0, lighter_qty |-> 0]
                 /\ pc' = IF error = "none" THEN "open_orders" ELSE "open_failed"
    /\ NoSave
    /\ UNCHANGED <<run, exit_code, state, current_position, completed_cycles,
                   last_error, state_file, temp_file, os_errors, enable_stop_loss,
                   leverage, best, time_left, aster_size, lighter_size,
                   query_failed, aster_pnl, lighter_pnl, worst_pnl, close_reason,
                   close_orders, aster_closed, lighter_closed, retry_pc,
                   retry_attempt, initial_delay, calls, rate_limited, sleeps,
                   fetch_pc, fetch_attempt, lighter_semaphore, aster_semaphore,
                   scan_results, error_slept, signer, api_client, quotes, legs,
                   close_tasks, cumulative_stats, unrecorded_legs, exit_pc,
                   positions, matched_pairs, confirmation, pairs_done, orders_sent>>

\* the two order tasks are run with size_base (str(size_base) on Aster);
\* results = await asyncio.gather(*tasks, return_exceptions=True); any error raises
OpenSubmit ==
    /\ Running("open_orders")
    /\ open_order' = [open_order EXCEPT !.aster_qty = open_order.size_base,
                                        !.lighter_qty = open_order.size_base]
    /\ \E aster_ok \in BOOLEAN, lighter_ok \in BOOLEAN :
          /\ open_result' = GatherResult(aster_ok, lighter_ok)
          /\ pc' = IF aster_ok /\ lighter_ok THEN "open_verify" ELSE "open_failed"
    /\ NoSave
    /\ UNCHANGED <<run, exit_code, state, current_position, completed_cycles,
                   last_error, state_file, temp_file, os_errors, enable_stop_loss,
                   leverage, best, time_left, aster_size, lighter_size,
                   query_failed, aster_pnl, lighter_pnl, worst_pnl, close_reason,
                   close_orders, aster_closed, lighter_closed, retry_pc,
                   retry_attempt, initial_delay, calls, rate_limited, sleeps,
                   fetch_pc, fetch_attempt, lighter_semaphore, aster_semaphore,
                   scan_results, error_slept, signer, api_client, quotes, legs,
                   close_tasks, cumulative_stats, unrecorded_legs, exit_pc,
                   positions, matched_pairs, confirmation, pairs_done, orders_sent>>

\* the open returned its metadata: store the position, set_state(BotState.HOLDING)
OpenStore ==
    /\ Running("open_verify")
    /\ current_position' =
          NewPosition(best, leverage, open_order.size_base, open_order.avg_mid)
    /\ open_order' = NoOrder
    /\ time_left' = HoldChecks
    /\ best' = "None"
    /\ open_result' = "none"
    /\ state' = "HOLDING"
    /\ CallSave
    /\ pc' = "loop"
    /\ UNCHANGED <<run, exit_code, completed_cycles, last_error, state_file, temp_file,
                   os_errors, enable_stop_loss, leverage, aster_size, lighter_size,
                   query_failed, aster_pnl, lighter_pnl, worst_pnl, close_reason,
                   close_orders, aster_closed, lighter_closed, retry_pc,
                   retry_attempt, initial_delay, calls, rate_limited, sleeps,
                   fetch_pc, fetch_attempt, lighter_semaphore, aster_semaphore,
                   scan_results, error_slept, signer, api_client, quotes, legs,
                   close_tasks, cumulative_stats, unrecorded_legs, exit_pc,
                   positions, matched_pairs, confirmation, pairs_done, orders_sent>>

\* the engine with the sized open, each cycle followed up to the return of its close
SizeNext ==
    \/ Main
    \/ Kill
    \/ SaveOpenTemp
    \/ SaveWriteTemp
    \/ SaveReplace
    \/ SaveOSError
    \/ StartNoPosition
    \/ RecoverQueryError
    \/ RecoverQuery
    \/ Recover
    \/ RecoverSetState
    \/ LoopIdle
    \/ ScanNoCandidate
    \/ WaitSleep
    \/ ScanCandidate
    \/ OpenSizing
    \/ OpenSubmit
    \/ OpenStore
    \/ OperationFailed
    \/ ErrorRecord
    \/ ErrSleep
    \/ LoopError
    \/ LoopUnknown
    \/ LoopHoldingNoPosition
    \/ LoopHoldingExpired
    \/ Monitor
    \/ Refresh
    \/ CheckSleep
    \/ ClosePrepare
    \/ CloseGather
    \/ CloseVerify
    \/ Interrupt
    \/ ShutdownSave
    \/ Fatal
    \/ FatalRecord
    \/ Exit

SizeSpec == Init /\ [][SizeNext]_vars

----------------------------------------------------------------------------
\* A start that finds a state file with a held position: main up to the top of
\* the loop, with the position as main_loop stored it. Times count hours

\* state_mgr.state["current_position"] as the open branch of main_loop wrote it
\* (size_base and avg_mid are its metadata)
StoredPositions ==
    {[symbol |-> s, leverage |-> lev, size_base |-> sb, avg_mid |-> 50000,
      long_exchange |-> d[1], short_exchange |-> d[2],
      opened_at |-> 1, target_close_at |-> 9] :
        s \in Symbols, lev \in Leverages, sb \in {20, 49, 50, 20000},
        d \in {<<"Aster", "Lighter">>, <<"Lighter", "Aster">>}}

\* the state files such a position is found in
HoldingFiles ==
    {[kind |-> "json", state |-> "HOLDING", current_position |-> p,
      completed_cycles |-> <<>>, last_error |-> FALSE, cumulative_stats |-> DefaultStats] : p \in StoredPositions}

RecoverInit == NotStarted /\ state_file \in HoldingFiles /\ AuxIdle

\* signed sizes the venues report for the larger stored positions too
WideSizes == {-20000, -60, -20, 0, 20, 60, 20022}

\* verify_and_recover_position: both venues answer with their signed sizes
RecoverQueryWide ==
    /\ Running("start")
    /\ current_position # NoPosition
    /\ \E a \in WideSizes, l \in WideSizes :
          /\ aster_size' = a
          /\ lighter_size' = l
    /\ query_failed' = FALSE
    /\ pc' = "rec_read"
    /\ NoSave
    /\ UNCHANGED <<run, exit_code, state, current_position, completed_cycles,
                   last_error, state_file, temp_file, os_errors, enable_stop_loss,
                   leverage, best, open_result, time_left, aster_pnl, lighter_pnl,
                   worst_pnl, close_reason, close_orders, aster_closed,
                   lighter_closed, retry_pc, retry_attempt, initial_delay, calls,
                   rate_limited, sleeps, fetch_pc, fetch_attempt,
                   lighter_semaphore, aster_semaphore, scan_results, open_order,
                   error_slept, signer, api_client, quotes, legs, close_tasks,
                   cumulative_stats, unrecorded_legs, exit_pc, positions,
                   matched_pairs, confirmation, pairs_done, orders_sent>>

RecoverNext ==
    \/ Main
    \/ SaveOpenTemp
    \/ SaveWriteTemp
    \/ SaveReplace
    \/ SaveOSError
    \/ RecoverQueryError
    \/ RecoverQueryWide
    \/ Recover
    \/ RecoverSetState

RecoverSpec == RecoverInit /\ [][RecoverNext]_vars

----------------------------------------------------------------------------
\* open_delta_neutral_position and close_delta_neutral_position step by step: the
\* Lighter handles they create, the quotes, the order tasks and the sizes read

\* get_avg_mid finds a pair of prices to average (it raises otherwise)
UsableMid(q) ==
    \/ q.lighter_bid /\ q.lighter_ask
    \/ q.aster_bid /\ q.aster_ask
    \/ q.lighter_bid /\ q.aster_ask
    \/ q.aster_bid /\ q.lighter_ask

\* the three checks of the quotes inside the try block
QuotesMissing(q) ==
    \/ ~(q.lighter_bid \/ q.lighter_ask)
    \/ ~(q.aster_bid \/ q.aster_ask)

QuoteSets == [lighter_bid : BOOLEAN, lighter_ask : BOOLEAN,
              aster_bid : BOOLEAN, aster_ask : BOOLEAN]

\* await signer.close(); await api_client.close()
CloseHandles == signer' = "closed" /\ api_client' = "closed"

\* api_client = lighter.ApiClient(...); signer = lighter.SignerClient(...);
\* err = signer.check_client(): an error closes the API client and raises
OpenClients ==
    /\ Running("open")
    /\ open_result' = "none"
    /\ signer' = "open"
    /\ \E err \in BOOLEAN :
          IF err
          THEN api_client' = "closed" /\ pc' = "open_raised"
          ELSE api_client' = "open" /\ pc' = "open_quotes"
    /\ NoSave
    /\ UNCHANGED <<run, exit_code, state, current_position, completed_cycles,
                   last_error, state_file, temp_file, os_errors, enable_stop_loss,
                   leverage, best, time_left, aster_size, lighter_size,
                   query_failed, aster_pnl, lighter_pnl, worst_pnl, close_reason,
                   close_orders, aster_closed, lighter_closed, retry_pc,
                   retry_attempt, initial_delay, calls, rate_limited, sleeps,
                   fetch_pc, fetch_attempt, lighter_semaphore, aster_semaphore,
                   scan_results, open_order, error_slept, quotes, legs,
                   close_tasks, cumulative_stats, unrecorded_legs, exit_pc,
                   positions, matched_pairs, confirmation, pairs_done, orders_sent>>

\* the try block: market details and best prices of both venues; any exception
\* closes both handles and is raised again
OpenQuotes ==
    /\ Running("open_quotes")
    /\ \E failed \in BOOLEAN, q \in QuoteSets :
          IF failed \/ QuotesMissing(q)
          THEN CloseHandles /\ pc' = "open_raised" /\ UNCHANGED quotes
          ELSE quotes' = q /\ pc' = "open_size" /\ UNCHANGED <<signer, api_client>>
    /\ NoSave
    /\ UNCHANGED <<run, exit_code, state, current_position, completed_cycles,
                   last_error, state_file, temp_file, os_errors, enable_stop_loss,
                   leverage, best, open_result, time_left, aster_size,
                   lighter_size, query_failed, aster_pnl, lighter_pnl, worst_pnl,
                   close_reason, close_orders, aster_closed, lighter_closed,
                   retry_pc, retry_attempt, initial_delay, calls, rate_limited,
                   sleeps, fetch_pc, fetch_attempt, lighter_semaphore,
                   aster_semaphore, scan_results, open_order, error_slept, legs,
                   close_tasks, cumulative_stats, unrecorded_legs, exit_pc,
                   positions, matched_pairs, confirmation, pairs_done, orders_sent>>

\* configure_leverage (it catches what its calls raise), get_avg_mid, the sizing
\* and its checks, then the two order tasks handed to asyncio.gather
OpenDispatch ==
    /\ Running("open_size")
    /\ IF ~UsableMid(quotes)
       THEN pc' = "open_raised" /\ UNCHANGED <<signer, api_client, legs>>
       ELSE \E size_error \in {"none", "zero", "too_small"} :
               IF size_error # "none"
               THEN CloseHandles /\ pc' = "open_raised" /\ UNCHANGED legs
               ELSE /\ legs' = [aster |-> "pending", lighter |-> "pending"]
                    /\ pc' = "open_gather"
                    /\ UNCHANGED <<signer, api_client>>
    /\ NoSave
    /\ UNCHANGED <<run, exit_code, state, current_position, completed_cycles,
                   last_error, state_file, temp_file, os_errors, enable_stop_loss,
                   leverage, best, open_result, time_left, aster_size,
                   lighter_size, query_failed, aster_pnl, lighter_pnl, worst_pnl,
                   close_reason, close_orders, aster_closed, lighter_closed,
                   retry_pc, retry_attempt, initial_delay, calls, rate_limited,
                   sleeps, fetch_pc, fetch_attempt, lighter_semaphore,
                   aster_semaphore, scan_results, open_order, error_slept, quotes,
                   close_tasks, cumulative_stats, unrecorded_legs, exit_pc,
                   positions, matched_pairs, confirmation, pairs_done, orders_sent>>

\* one of the two order tasks ends, with a result or with an exception
LegDone(venue) ==
    /\ Running("open_gather")
    /\ legs[venue] = "pending"
    /\ \E ok \in BOOLEAN :
          legs' = [legs EXCEPT ![venue] = IF ok THEN "ok" ELSE "failed"]
    /\ pc' = pc
    /\ NoSave
    /\ UNCHANGED <<run, exit_code, state, current_position, completed_cycles,
                   last_error, state_file, temp_file, os_errors, enable_stop_loss,
                   leverage, best, open_result, time_left, aster_size,
                   lighter_size, query_failed, aster_pnl, lighter_pnl, worst_pnl,
                   close_reason, close_orders, aster_closed, lighter_closed,
                   retry_pc, retry_attempt, initial_delay, calls, rate_limited,
                   sleeps, fetch_pc, fetch_attempt, lighter_semaphore,
                   aster_semaphore, scan_results, open_order, error_slept, signer,
                   api_client, quotes, close_tasks, cumulative_stats,
                   unrecorded_legs, exit_pc, positions, matched_pairs,
                   confirmation, pairs_done, orders_sent>>

\* asyncio.gather returns although a task is still pending
OpenGatheredEarly ==
    /\ Running("open_gather")
    /\ \E venue \in {"aster", "lighter"} : legs[venue] # "pending"
    /\ open_result' = GatherResult(legs.aster = "ok", legs.lighter = "ok")
    /\ IF legs.aster # "failed" /\ legs.lighter # "failed"
       THEN pc' = "open_check" /\ UNCHANGED <<signer, api_client>>
       ELSE CloseHandles /\ pc' = "open_raised"
    /\ NoSave
    /\ UNCHANGED <<run, exit_code, state, current_position, completed_cycles,
                   last_error, state_file, temp_file, os_errors, enable_stop_loss,
                   leverage, best, time_left, aster_size, lighter_size,
                   query_failed, aster_pnl, lighter_pnl, worst_pnl, close_reason,
                   close_orders, aster_closed, lighter_closed, retry_pc,
                   retry_attempt, initial_delay, calls, rate_limited, sleeps,
                   fetch_pc, fetch_attempt, lighter_semaphore, aster_semaphore,
                   scan_results, open_order, error_slept, quotes, legs,
                   close_tasks, cumulative_stats, unrecorded_legs, exit_pc,
                   positions, matched_pairs, confirmation, pairs_done, orders_sent>>

\* results = await asyncio.gather(*tasks, return_exceptions=True) returns when both
\* tasks have ended; any exception closes the handles and raises
OpenGathered ==
    /\ Running("open_gather")
    /\ legs.aster # "pending"
    /\ legs.lighter # "pending"
    /\ open_result' = GatherResult(legs.aster = "ok", legs.lighter = "ok")
    /\ IF legs.aster = "ok" /\ legs.lighter = "ok"
       THEN pc' = "open_check" /\ UNCHANGED <<signer, api_client>>
       ELSE CloseHandles /\ pc' = "open_raised"
    /\ NoSave
    /\ UNCHANGED <<run, exit_code, state, current_position, completed_cycles,
                   last_error, state_file, temp_file, os_errors, enable_stop_loss,
                   leverage, best, time_left, aster_size, lighter_size,
                   query_failed, aster_pnl, lighter_pnl, worst_pnl, close_reason,
                   close_orders, aster_closed, lighter_closed, retry_pc,
                   retry_attempt, initial_delay, calls, rate_limited, sleeps,
                   fetch_pc, fetch_attempt, lighter_semaphore, aster_semaphore,
                   scan_results, open_order, error_slept, quotes, legs,
                   close_tasks, cumulative_stats, unrecorded_legs, exit_pc,
                   positions, matched_pairs, confirmation, pairs_done, orders_sent>>

\* await asyncio.sleep(2); the two verifications (what they raise is logged);
\* the handles are closed and the metadata is returned
OpenChecked ==
    /\ Running("open_check")
    /\ CloseHandles
    /\ pc' = "open_done"
    /\ NoSave
    /\ UNCHANGED <<run, exit_code, state, current_position, completed_cycles,
                   last_error, state_file, temp_file, os_errors, enable_stop_loss,
                   leverage, best, open_result, time_left, aster_size,
                   lighter_size, query_failed, aster_pnl, lighter_pnl, worst_pnl,
                   close_reason, close_orders, aster_closed, lighter_closed,
                   retry_pc, retry_attempt, initial_delay, calls, rate_limited,
                   sleeps, fetch_pc, fetch_attempt, lighter_semaphore,
                   aster_semaphore, scan_results, open_order, error_slept, quotes,
                   legs, close_tasks, cumulative_stats, unrecorded_legs, exit_pc,
                   positions, matched_pairs, confirmation, pairs_done, orders_sent>>

\* the same three lines of close_delta_neutral_position
CloseClients ==
    /\ Running("close")
    /\ signer' = "open"
    /\ \E err \in BOOLEAN :
          IF err
          THEN api_client' = "closed" /\ pc' = "close_raised"
          ELSE api_client' = "open" /\ pc' = "close_queries"
    /\ aster_pnl' = NoPnl
    /\ lighter_pnl' = NoPnl
    /\ NoSave
    /\ UNCHANGED <<run, exit_code, state, current_position, completed_cycles,
                   last_error, state_file, temp_file, os_errors, enable_stop_loss,
                   leverage, best, open_result, time_left, aster_size,
                   lighter_size, query_failed, worst_pnl, close_reason,
                   close_orders, aster_closed, lighter_closed, retry_pc,
                   retry_attempt, initial_delay, calls, rate_limited, sleeps,
                   fetch_pc, fetch_attempt, lighter_semaphore, aster_semaphore,
                   scan_results, open_order, error_slept, quotes, legs,
                   close_tasks, cumulative_stats, unrecorded_legs, exit_pc,
                   positions, matched_pairs, confirmation, pairs_done, orders_sent>>

\* lighter_close_side, ref_price and the Lighter task of the close
LighterCloseTasks(l, bid, ask) ==
    IF Abs(l) > l_amount_tick
    THEN LET side == IF l > 0 THEN "sell" ELSE "buy"
             ref_price == IF side = "sell" THEN bid ELSE ask
         IN  IF ref_price
             THEN {[venue |-> "Lighter", side |-> side, size |-> Abs(l)]}
             ELSE {}
    ELSE {}

\* aster_close_side and the Aster task of the close
AsterCloseTasks(a) ==
    IF Abs(a) > PosEps
    THEN {[venue |-> "Aster", side |-> IF a < 0 THEN "BUY" ELSE "SELL", size |-> Abs(a)]}
    ELSE {}

\* market details, best prices and the open size of both venues (a query that
\* raises leaves the function at once), then the tasks
CloseQueries ==
    /\ Running("close_queries")
    /\ \E failed \in BOOLEAN, a \in Sizes, l \in Sizes, bid \in BOOLEAN, ask \in BOOLEAN :
          IF failed
          THEN pc' = "close_raised" /\ UNCHANGED <<aster_size, lighter_size, close_tasks>>
          ELSE /\ aster_size' = a
               /\ lighter_size' = l
               /\ close_tasks' = LighterCloseTasks(l, bid, ask) \cup AsterCloseTasks(a)
               /\ pc' = IF LighterCloseTasks(l, bid, ask) \cup AsterCloseTasks(a) # {}
                        THEN "close_gather" ELSE "close_check"
    /\ NoSave
    /\ UNCHANGED <<run, exit_code, state, current_position, completed_cycles,
                   last_error, state_file, temp_file, os_errors, enable_stop_loss,
                   leverage, best, open_result, time_left, query_failed, aster_pnl,
                   lighter_pnl, worst_pnl, close_reason, close_orders,
                   aster_closed, lighter_closed, retry_pc, retry_attempt,
                   initial_delay, calls, rate_limited, sleeps, fetch_pc,
                   fetch_attempt, lighter_semaphore, aster_semaphore, scan_results,
                   open_order, error_slept, signer, api_client, quotes, legs,
                   cumulative_stats, unrecorded_legs, exit_pc, positions,
                   matched_pairs, confirmation, pairs_done, orders_sent>>

\* results = await asyncio.gather(*tasks, return_exceptions=True); any exception
\* closes the handles and raises
CloseGathered ==
    /\ Running("close_gather")
    /\ \E error \in BOOLEAN :
          IF error
          THEN CloseHandles /\ pc' = "close_raised"
          ELSE pc' = "close_check" /\ UNCHANGED <<signer, api_client>>
    /\ NoSave
    /\ UNCHANGED <<run, exit_code, state, current_position, completed_cycles,
                   last_error, state_file, temp_file, os_errors, enable_stop_loss,
                   leverage, best, open_result, time_left, aster_size,
                   lighter_size, query_failed, aster_pnl, lighter_pnl, worst_pnl,
                   close_reason, close_orders, aster_closed, lighter_closed,
                   retry_pc, retry_attempt, initial_delay, calls, rate_limited,
                   sleeps, fetch_pc, fetch_attempt, lighter_semaphore,
                   aster_semaphore, scan_results, open_order, error_slept, quotes,
                   legs, close_tasks, cumulative_stats, unrecorded_legs, exit_pc,
                   positions, matched_pairs, confirmation, pairs_done, orders_sent>>

\* await asyncio.sleep(2); both sizes are read again (a query that raises leaves
\* the function at once); the handles are closed and the function returns
CloseChecked ==
    /\ Running("close_check")
    /\ \E failed \in BOOLEAN, a \in Sizes, l \in Sizes :
          IF failed
          THEN /\ pc' = "close_raised"
               /\ UNCHANGED <<signer, api_client, aster_closed, lighter_closed>>
          ELSE /\ CloseHandles
               /\ aster_closed' = AsterClosed(a)
               /\ lighter_closed' = LighterClosed(l)
               /\ pc' = "close_done"
    /\ NoSave
    /\ UNCHANGED <<run, exit_code, state, current_position, completed_cycles,
                   last_error, state_file, temp_file, os_errors, enable_stop_loss,
                   leverage, best, open_result, time_left, aster_size,
                   lighter_size, query_failed, aster_pnl, lighter_pnl, worst_pnl,
                   close_reason, close_orders, retry_pc, retry_attempt,
                   initial_delay, calls, rate_limited, sleeps, fetch_pc,
                   fetch_attempt, lighter_semaphore, aster_semaphore, scan_results,
                   open_order, error_slept, quotes, legs, close_tasks,
                   cumulative_stats, unrecorded_legs, exit_pc, positions,
                   matched_pairs, confirmation, pairs_done, orders_sent>>

\* the function returned to main_loop
CallReturned ==
    /\ Running(pc)
    /\ pc \in {"open_done", "close_done"}
    /\ pc' = IF pc = "open_done" THEN "open_verify" ELSE "close_returned"
    /\ CallLeft
    /\ aster_size' = 0
    /\ lighter_size' = 0
    /\ NoSave
    /\ UNCHANGED <<run, exit_code, state, current_position, completed_cycles,
                   last_error, state_file, temp_file, os_errors, enable_stop_loss,
                   leverage, best, open_result, time_left, query_failed, aster_pnl,
                   lighter_pnl, worst_pnl, close_reason, close_orders,
                   aster_closed, lighter_closed, retry_pc, retry_attempt,
                   initial_delay, calls, rate_limited, sleeps, fetch_pc,
                   fetch_attempt, lighter_semaphore, aster_semaphore, scan_results,
                   open_order, error_slept, cumulative_stats, unrecorded_legs,
                   exit_pc, positions, matched_pairs, confirmation, pairs_done,
                   orders_sent>>

\* the function raised into the except clause of main_loop
CallRaised ==
    /\ Running(pc)
    /\ pc \in {"open_raised", "close_raised"}
    /\ pc' = IF pc = "open_raised" THEN "open_failed" ELSE "close_failed"
    /\ CallLeft
    /\ aster_size' = 0
    /\ lighter_size' = 0
    /\ NoSave
    /\ UNCHANGED <<run, exit_code, state, current_position, completed_cycles,
                   last_error, state_file, temp_file, os_errors, enable_stop_loss,
                   leverage, best, open_result, time_left, query_failed, aster_pnl,
                   lighter_pnl, worst_pnl, close_reason, close_orders,
                   aster_closed, lighter_closed, retry_pc, retry_attempt,
                   initial_delay, calls, rate_limited, sleeps, fetch_pc,
                   fetch_attempt, lighter_semaphore, aster_semaphore, scan_results,
                   open_order, error_slept, cumulative_stats, unrecorded_legs,
                   exit_pc, positions, matched_pairs, confirmation, pairs_done,
                   orders_sent>>

CallPcs == {"open_quotes", "open_size", "open_gather", "open_check", "open_done",
            "open_raised", "close_queries", "close_gather", "close_check",
            "close_done", "close_raised"}

\* a signal while one of the two functions runs
CallInterrupt ==
    /\ save_pc = "none"
    /\ pc \in CallPcs
    /\ state' = "SHUTDOWN"
    /\ CallSave
    /\ pc' = "shutdown_save"
    /\ LoopLeft
    /\ UNCHANGED <<run, exit_code, current_position, completed_cycles, last_error,
                   state_file, temp_file, os_errors, enable_stop_loss, leverage,
                   time_left, retry_pc, retry_attempt, initial_delay, calls,
                   rate_limited, sleeps, fetch_pc, fetch_attempt,
                   lighter_semaphore, aster_semaphore, scan_results,
                   cumulative_stats, unrecorded_legs, exit_pc, positions,
                   matched_pairs, confirmation, pairs_done, orders_sent>>

\* the engine with the two functions step by step, each cycle followed up to the
\* return of its close
CallNext ==
    \/ Main
    \/ Kill
    \/ SaveOpenTemp
    \/ SaveWriteTemp
    \/ SaveReplace
    \/ SaveOSError
    \/ StartNoPosition
    \/ RecoverQueryError
    \/ RecoverQuery
    \/ Recover
    \/ RecoverSetState
    \/ LoopIdle
    \/ ScanNoCandidate
    \/ WaitSleep
    \/ ScanCandidate
    \/ OpenClients
    \/ OpenQuotes
    \/ OpenDispatch
    \/ \E venue \in {"aster", "lighter"} : LegDone(venue)
    \/ OpenGathered
    \/ OpenChecked
    \/ OpenReturn
    \/ OperationFailed
    \/ ErrorRecord
    \/ ErrSleep
    \/ LoopError
    \/ LoopUnknown
    \/ LoopHoldingNoPosition
    \/ LoopHoldingExpired
    \/ Monitor
    \/ Refresh
    \/ CheckSleep
    \/ CloseClients
    \/ CloseQueries
    \/ CloseGathered
    \/ CloseChecked
    \/ CallReturned
    \/ CallRaised
    \/ Interrupt
    \/ CallInterrupt
    \/ ShutdownSave
    \/ Fatal
    \/ FatalRecord
    \/ Exit

CallSpec == Init /\ [][CallNext]_vars

----------------------------------------------------------------------------
\* StateManager.save alone: a caller that sets states, and exceptions without a
\* limit on their number

\* set_state(new_state): self.state["state"] = new_state; self.save()
SetState ==
    /\ pc = "stopped"
    /\ save_pc = "none"
    /\ \E new_state \in {"IDLE", "ANALYZING", "ERROR"} : state' = new_state
    /\ CallSave
    /\ UNCHANGED <<pc, run, exit_code, current_position, completed_cycles, last_error,
                   state_file, temp_file, os_errors, enable_stop_loss, leverage,
                   best, open_result, time_left, aster_size, lighter_size,
                   query_failed, aster_pnl, lighter_pnl, worst_pnl, close_reason,
                   close_orders, aster_closed, lighter_closed, retry_pc,
                   retry_attempt, initial_delay, calls, rate_limited, sleeps,
                   fetch_pc, fetch_attempt, lighter_semaphore, aster_semaphore,
                   scan_results, open_order, error_slept, signer, api_client,
                   quotes, legs, close_tasks, cumulative_stats, unrecorded_legs,
                   exit_pc, positions, matched_pairs, confirmation, pairs_done,
                   orders_sent>>

\* an exception in open, json.dump or os.replace
SaveFails ==
    /\ pc = "stopped"
    /\ save_pc \in {"open", "write", "replace"}
    /\ \E busy \in BOOLEAN : SaveCaught(busy)
    /\ UNCHANGED <<pc, run, exit_code, state, current_position, completed_cycles,
                   last_error, state_file, temp_file, os_errors, enable_stop_loss,
                   leverage, best, open_result, time_left, aster_size,
                   lighter_size, query_failed, aster_pnl, lighter_pnl, worst_pnl,
                   close_reason, close_orders, aster_closed, lighter_closed,
                   retry_pc, retry_attempt, initial_delay, calls, rate_limited,
                   sleeps, fetch_pc, fetch_attempt, lighter_semaphore,
                   aster_semaphore, scan_results, open_order, error_slept, signer,
                   api_client, quotes, legs, close_tasks, cumulative_stats,
                   unrecorded_legs, exit_pc, positions, matched_pairs,
                   confirmation, pairs_done, orders_sent>>

SaveNext ==
    \/ SetState
    \/ SaveOpenTemp
    \/ SaveWriteTemp
    \/ SaveReplace
    \/ SaveFails

SaveSpec == Init /\ [][SaveNext]_vars

----------------------------------------------------------------------------
\* emergency_exit.py: the emergency closer. Sizes count 0.0001 base units

\* the symbols of the Lighter markets ('BTC' where Aster has 'BTCUSDT')
LighterSymbols == {"BTC", "ETH"}

\* positionAmt of the Aster account and the sizes Lighter lists, by symbol
ExitSizes == {-20, -1, 0, 1, 20}

\* get_all_positions: the Aster positions with abs(size) > 0.0001
AsterListed(amounts) ==
    {[symbol |-> s, size |-> amounts[s]] : s \in {x \in Symbols : Abs(amounts[x]) > 1}}

\* get_all_positions: what get_all_lighter_positions returned
LighterListed(sizes) == {[symbol |-> s, size |-> sizes[s]] : s \in LighterSymbols}

\* a match on the symbol alone
MatchSameSymbol(aster_positions, lighter_positions) ==
    {[symbol |-> a.symbol, aster |-> a, lighter |-> l] :
        <<a, l>> \in {x \in aster_positions \X lighter_positions :
                        x[1].symbol = x[2].symbol \o "USDT"}}

\* match_delta_neutral_positions: same symbol, sizes of opposite sign
match_delta_neutral_positions(aster_positions, lighter_positions) ==
    {[symbol |-> a.symbol, aster |-> a, lighter |-> l] :
        <<a, l>> \in {x \in aster_positions \X lighter_positions :
                        /\ x[1].symbol = x[2].symbol \o "USDT"
                        /\ \/ x[1].size > 0 /\ x[2].size < 0
                           \/ x[1].size < 0 /\ x[2].size > 0}}

\* close_positions: the tasks built for one pair
ExitTasks(pair, lighter_bid, lighter_ask) ==
    LET l_size == pair.lighter.size
        a_size == pair.aster.size
        lighter_close_side == IF l_size > 0 THEN "sell" ELSE "buy"
        ref_price == IF lighter_close_side = "sell" THEN lighter_bid ELSE lighter_ask
    IN  (IF Abs(l_size) > l_amount_tick /\ ref_price
         THEN {[venue |-> "Lighter", symbol |-> pair.symbol, side |-> lighter_close_side,
                size |-> Abs(l_size)]}
         ELSE {})
        \cup
        (IF Abs(a_size) > 1
         THEN {[venue |-> "Aster", symbol |-> pair.symbol,
                side |-> IF a_size < 0 THEN "BUY" ELSE "SELL",
                size |-> Abs(a_size)]}
         ELSE {})

\* main: get_all_positions (which may raise), match_delta_neutral_positions,
\* display_positions; without a pair main returns
ExitScan ==
    /\ exit_pc = "off"
    /\ \E failed \in BOOLEAN, amounts \in [Symbols -> ExitSizes],
          sizes \in [LighterSymbols -> ExitSizes] :
          IF failed
          THEN exit_pc' = "failed" /\ UNCHANGED <<positions, matched_pairs>>
          ELSE /\ positions' = [aster |-> AsterListed(amounts),
                                lighter |-> LighterListed(sizes)]
               /\ matched_pairs' = match_delta_neutral_positions(AsterListed(amounts),
                                                                 LighterListed(sizes))
               /\ exit_pc' = IF matched_pairs' = {} THEN "nothing" ELSE "confirm"
    /\ UNCHANGED <<pc, run, exit_code, state, current_position, completed_cycles,
                   last_error, state_file, temp_file, save_pc, attempt, os_errors,
                   enable_stop_loss, leverage, best, open_result, time_left,
                   aster_size, lighter_size, query_failed, aster_pnl, lighter_pnl,
                   worst_pnl, close_reason, close_orders, aster_closed,
                   lighter_closed, retry_pc, retry_attempt, initial_delay, calls,
                   rate_limited, sleeps, fetch_pc, fetch_attempt,
                   lighter_semaphore, aster_semaphore, scan_results, open_order,
                   error_slept, signer, api_client, quotes, legs, close_tasks,
                   save_error, save_sleeps, cumulative_stats, unrecorded_legs,
                   confirmation, pairs_done, orders_sent>>

\* confirmation = input(...): ENTER goes on to close_positions, Ctrl+C returns,
\* another exception (no input to read) leaves main with exit code 1
ExitConfirm ==
    /\ exit_pc = "confirm"
    /\ \E answer \in {"enter", "cancel", "eof"} :
          /\ confirmation' = answer
          /\ exit_pc' = IF answer = "enter" THEN "clients"
                        ELSE IF answer = "cancel" THEN "cancelled" ELSE "failed"
    /\ UNCHANGED <<pc, run, exit_code, state, current_position, completed_cycles,
                   last_error, state_file, temp_file, save_pc, attempt, os_errors,
                   enable_stop_loss, leverage, best, open_result, time_left,
                   aster_size, lighter_size, query_failed, aster_pnl, lighter_pnl,
                   worst_pnl, close_reason, close_orders, aster_closed,
                   lighter_closed, retry_pc, retry_attempt, initial_delay, calls,
                   rate_limited, sleeps, fetch_pc, fetch_attempt,
                   lighter_semaphore, aster_semaphore, scan_results, open_order,
                   error_slept, signer, api_client, quotes, legs, close_tasks,
                   save_error, save_sleeps, cumulative_stats, unrecorded_legs,
                   positions, matched_pairs, pairs_done, orders_sent>>

\* close_positions: the Lighter clients; a check_client error raises
ExitClients ==
    /\ exit_pc = "clients"
    /\ \E err \in BOOLEAN : exit_pc' = IF err THEN "failed" ELSE "pairs"
    /\ UNCHANGED <<pc, run, exit_code, state, current_position, completed_cycles,
                   last_error, state_file, temp_file, save_pc, attempt, os_errors,
                   enable_stop_loss, leverage, best, open_result, time_left,
                   aster_size, lighter_size, query_failed, aster_pnl, lighter_pnl,
                   worst_pnl, close_reason, close_orders, aster_closed,
                   lighter_closed, retry_pc, retry_attempt, initial_delay, calls,
                   rate_limited, sleeps, fetch_pc, fetch_attempt,
                   lighter_semaphore, aster_semaphore, scan_results, open_order,
                   error_slept, signer, api_client, quotes, legs, close_tasks,
                   save_error, save_sleeps, cumulative_stats, unrecorded_legs,
                   positions, matched_pairs, confirmation, pairs_done, orders_sent>>

\* close_positions, one pair of the loop: market details and best prices (which
\* may raise), the tasks, asyncio.gather (its errors are printed)
ExitPair(pair) ==
    /\ exit_pc = "pairs"
    /\ pair \in matched_pairs \ pairs_done
    /\ \E failed \in BOOLEAN, lighter_bid \in BOOLEAN, lighter_ask \in BOOLEAN :
          IF failed
          THEN exit_pc' = "failed" /\ UNCHANGED <<pairs_done, orders_sent>>
          ELSE /\ orders_sent' = orders_sent \cup ExitTasks(pair, lighter_bid, lighter_ask)
               /\ pairs_done' = pairs_done \cup {pair}
               /\ exit_pc' = exit_pc
    /\ UNCHANGED <<pc, run, exit_code, state, current_position, completed_cycles,
                   last_error, state_file, temp_file, save_pc, attempt, os_errors,
                   enable_stop_loss, leverage, best, open_result, time_left,
                   aster_size, lighter_size, query_failed, aster_pnl, lighter_pnl,
                   worst_pnl, close_reason, close_orders, aster_closed,
                   lighter_closed, retry_pc, retry_attempt, initial_delay, calls,
                   rate_limited, sleeps, fetch_pc, fetch_attempt,
                   lighter_semaphore, aster_semaphore, scan_results, open_order,
                   error_slept, signer, api_client, quotes, legs, close_tasks,
                   save_error, save_sleeps, cumulative_stats, unrecorded_legs,
                   positions, matched_pairs, confirmation>>

\* close_positions: await asyncio.sleep(3) and the verification of each pair
\* (queries that may raise); the clients are closed
ExitVerify ==
    /\ exit_pc = "pairs"
    /\ pairs_done = matched_pairs
    /\ \E failed \in BOOLEAN : exit_pc' = IF failed THEN "failed" ELSE "complete"
    /\ UNCHANGED <<pc, run, exit_code, state, current_position, completed_cycles,
                   last_error, state_file, temp_file, save_pc, attempt, os_errors,
                   enable_stop_loss, leverage, best, open_result, time_left,
                   aster_size, lighter_size, query_failed, aster_pnl, lighter_pnl,
                   worst_pnl, close_reason, close_orders, aster_closed,
                   lighter_closed, retry_pc, retry_attempt, initial_delay, calls,
                   rate_limited, sleeps, fetch_pc, fetch_attempt,
                   lighter_semaphore, aster_semaphore, scan_results, open_order,
                   error_slept, signer, api_client, quotes, legs, close_tasks,
                   save_error, save_sleeps, cumulative_stats, unrecorded_legs,
                   positions, matched_pairs, confirmation, pairs_done, orders_sent>>

ExitNext ==
    \/ ExitScan
    \/ ExitConfirm
    \/ ExitClients
    \/ \E pair \in matched_pairs : ExitPair(pair)
    \/ ExitVerify

ExitSpec == Init /\ [][ExitNext]_vars

----------------------------------------------------------------------------
\* Properties of the persisted state file

\* C1, as stated: in every persisted state file, state is HOLDING exactly when
\* current_position is non-null.
C1_HoldingIffPosition ==
    state_file.kind = "json" =>
        (state_file.state = "HOLDING" <=> state_file.current_position # NoPosition)

\* C1: a write that takes the persisted state to HOLDING carries a non-null
\* current_position (a position is also persisted under other states, and the
\* recovery persists HOLDING without a position until its next set_state).
C1_HoldingEntersWithPosition ==
    [][(state_file'.state = "HOLDING" /\ state_file'.kind = "json"
            /\ (state_file.kind # "json" \/ state_file.state # "HOLDING"))
        => state_file'.current_position # NoPosition]_vars

C1_Witness ==
    /\ state_file.kind = "json"
    /\ state_file.state = "HOLDING"
    /\ state_file.current_position # NoPosition
    /\ pc = "loop"
    /\ save_pc = "none"

\* C2, as stated: opening orders are never dispatched while current_position is
\* non-null.
C2_NoOpenWhilePositionLive ==
    pc = "open_orders" => current_position = NoPosition

----------------------------------------------------------------------------
\* Transitions of the state field

\* the transitions of the lifecycle list
ListedTransitions ==
    {<<"IDLE", "ANALYZING">>, <<"ANALYZING", "OPENING">>, <<"ANALYZING", "WAITING">>,
     <<"OPENING", "HOLDING">>, <<"OPENING", "ERROR">>, <<"HOLDING", "CLOSING">>,
     <<"CLOSING", "WAITING">>, <<"CLOSING", "ERROR">>, <<"WAITING", "IDLE">>,
     <<"ERROR", "IDLE">>}
        \cup {<<s, "SHUTDOWN">> : s \in BotStates \ {"SHUTDOWN"}}

\* a step of the running engine that changes the state field
StateChanges ==
    /\ pc \notin {"stopped", "exited"}
    /\ pc' \notin {"stopped", "exited"}
    /\ state' # state

\* C3, as stated: every change of the state field by the running engine is one of
\* the listed transitions.
C3_OnlyListedTransitions ==
    [][StateChanges => <<state, state'>> \in ListedTransitions]_vars

\* the transitions main_loop and main perform beside the listed ones, by the place
\* that performs them
UnlistedTransitions(at) ==
    IF at = "loop"
    THEN {<<"WAITING", "ANALYZING">>, <<"HOLDING", "IDLE">>, <<"ANALYZING", "IDLE">>,
          <<"OPENING", "IDLE">>, <<"CLOSING", "IDLE">>, <<"SHUTDOWN", "IDLE">>}
    ELSE IF at = "cooldown" THEN {<<"CLOSING", "IDLE">>}
    ELSE IF at = "rec_valid" THEN {<<s, "HOLDING">> : s \in BotStates \ {"HOLDING"}}
    ELSE IF at = "rec_invalid" THEN {<<"HOLDING", "IDLE">>}
    ELSE IF at = "start" THEN {<<s, "ERROR">> : s \in BotStates \ {"ERROR"}}
    ELSE {}

\* C3: every change of the state field by the running engine is a listed transition,
\* or WAITING->ANALYZING at the loop head, CLOSING->IDLE after a stop-loss close,
\* any->HOLDING or HOLDING->IDLE of the startup recovery, HOLDING->IDLE of a HOLDING
\* state without a position, a loaded ANALYZING, OPENING, CLOSING or SHUTDOWN going
\* to IDLE at the loop head, or any->ERROR of main's exception handler.
C3_Transitions ==
    [][StateChanges =>
          <<state, state'>> \in ListedTransitions \cup UnlistedTransitions(pc)]_vars

C3_Witness ==
    /\ pc = "scan"
    /\ save_pc = "none"
    /\ state = "ANALYZING"
    /\ completed_cycles # <<>>

----------------------------------------------------------------------------
\* Startup recovery

AboveEpsOpposite ==
    /\ ~query_failed
    /\ Abs(aster_size) > PosEps
    /\ Abs(lighter_size) > PosEps
    /\ aster_size * lighter_size < 0

----------------------------------------------------------------------------
\* Failed opens and closes

\* C5, as stated: after a partial fill is handled, no closing order was sent, the
\* state is ERROR, the state file has state ERROR with last_error set, and
\* current_position is null in memory and in the file.
C5_PartialFillRecorded ==
    (pc = "err_sleep" /\ save_pc = "none" /\ open_result \in {"aster_only", "lighter_only"})
        => /\ close_orders = {}
           /\ state = "ERROR"
           /\ current_position = NoPosition
           /\ state_file.kind = "json"
           /\ state_file.state = "ERROR"
           /\ state_file.last_error
           /\ state_file.current_position = NoPosition

\* C6, as stated: close_delta_neutral_position returns normally only when the
\* re-verification finds both venues closed.
C6_CloseReturnsOnlyWhenClosed ==
    pc = "close_returned" => aster_closed /\ lighter_closed

----------------------------------------------------------------------------
\* Stop-loss

\* the lower of the PnLs that were read
MoreNegative ==
    IF aster_pnl.available /\ lighter_pnl.available
    THEN (IF aster_pnl.value < lighter_pnl.value THEN aster_pnl.value
          ELSE lighter_pnl.value)
    ELSE IF aster_pnl.available THEN aster_pnl.value ELSE lighter_pnl.value

\* |worst_pnl| / (size_base * avg_mid) * 100 >= (100 / leverage) * 0.75, cleared of
\* its divisions
AtThreshold ==
    /\ aster_pnl.available \/ lighter_pnl.available
    /\ Abs(MoreNegative) * 100 * current_position.leverage * 4
          >= 300 * current_position.size_base * current_position.avg_mid

\* C7: a monitor iteration before the hold timer expires starts a stop-loss close
\* exactly when stop-loss is enabled and |worst_pnl| / (size_base * avg_mid) * 100
\* >= (100 / leverage) * 0.75, worst_pnl being the more negative PnL that was read.
C7_StopLossIffThreshold ==
    /\ (pc = "close" /\ close_reason = "stop-loss") => (enable_stop_loss /\ AtThreshold)
    /\ pc = "refresh" => ~(enable_stop_loss /\ AtThreshold)

C7_Witness ==
    /\ pc = "close"
    /\ close_reason = "stop-loss"
    /\ save_pc = "none"
    /\ aster_pnl.available
    /\ lighter_pnl.available
    /\ lighter_pnl.value < aster_pnl.value
    /\ Abs(lighter_pnl.value) * 100 = 25 * current_position.size_base * current_position.avg_mid

----------------------------------------------------------------------------
\* Persistence

\* C8: whenever the process is killed during save, the state file is the complete
\* previous state or the complete new state: every change of the file installs the
\* full in-memory state by the rename, and the file is never a truncated one.
C8_AtomicPersist ==
    [][/\ state_file'.kind # "truncated"
       /\ state_file' # state_file
            => (save_pc = "replace" /\ temp_file = "complete" /\ state_file' = Snapshot)]_vars

C8_Witness ==
    /\ pc = "stopped"
    /\ temp_file = "truncated"
    /\ state_file.kind = "json"
    /\ state_file.state = "HOLDING"

\* C9, as stated: when a scan begins, the close of the cycle before it is on disk:
\* the state file holds no position.
C9_ClosePersistedBeforeScan ==
    (pc = "scan" /\ save_pc = "none")
        => (state_file.kind = "json" => state_file.current_position = NoPosition)

\* the places right after a set_state call returned
AfterSetState == {"scan", "wait_sleep", "open", "close", "open_err_record", "close_err_record"}

\* C10, as stated: after set_state returns, the state file holds the in-memory state
\* value.
C10_SetStatePersisted ==
    (pc \in AfterSetState /\ save_pc = "none")
        => (state_file.kind = "json" /\ state_file.state = state)

----------------------------------------------------------------------------
\* Loading the state file

\* C11: when the state file is missing, empty or not parseable, load leaves the
\* in-memory state at the default state (IDLE, no position, no cycles, no error)
\* and the supervisor starts: main goes on to main_loop.
C11_LoadDefaults ==
    [][(pc \in {"stopped", "exited"} /\ pc' # pc /\ state_file.kind # "json")
        => /\ pc' = "start"
           /\ state' = "IDLE"
           /\ current_position' = NoPosition
           /\ completed_cycles' = <<>>
           /\ ~last_error']_vars

C11_Witness ==
    /\ pc = "start"
    /\ run = 1
    /\ state_file.kind = "garbled"
    /\ state = "IDLE"
    /\ current_position = NoPosition

----------------------------------------------------------------------------
\* Retry with backoff

\* C12: with max_retries = 3, every rate-limit failure among the first three is
\* followed by one sleep and one further call, the fourth raises RateLimitError
\* without a further call (at most max_retries + 1 calls), another error is raised
\* at once without a sleep, and a success returns at once.
C12_RetryCounts ==
    /\ calls <= max_retries + 1
    /\ retry_pc = "call" => (calls = Len(sleeps) /\ rate_limited = calls)
    /\ retry_pc = "sleep"
          => (rate_limited = Len(sleeps) + 1 /\ rate_limited <= max_retries
                 /\ calls = rate_limited)
    /\ retry_pc = "rate_limit_error"
          => (rate_limited = max_retries + 1 /\ calls = max_retries + 1
                 /\ Len(sleeps) = max_retries)
    /\ retry_pc \in {"raised", "returned"}
          => (calls = rate_limited + 1 /\ Len(sleeps) = rate_limited
                 /\ rate_limited <= max_retries)

C12_Witness ==
    /\ retry_pc = "rate_limit_error"
    /\ calls = 4
    /\ Len(sleeps) = 3

----------------------------------------------------------------------------
\* Properties of the scanner's fan-out

----------------------------------------------------------------------------
\* Properties of the scanner's results

\* the results gathered so far
Gathered == {scan_results[s] : s \in DOMAIN scan_results}

\* C14, as stated: a result is available only if both funding rates and both
\* mid prices were retrieved, and a symbol missing one of them is never the
\* symbol the engine opens.
C14_AvailableNeedsRatesAndMids ==
    \A r \in Gathered :
        (r.aster_rate = None \/ r.lighter_rate = None
            \/ r.aster_mid = None \/ r.lighter_mid = None)
        => ~r.available /\ ~(pc = "open" /\ best = r.symbol)

\* the spread of the two mids of r is strictly above 0.15 %
SpreadOver(r) ==
    /\ r.aster_mid # None
    /\ r.lighter_mid # None
    /\ Abs(Get(r.aster_mid) - Get(r.lighter_mid)) * 20000
          > 15 * (Get(r.aster_mid) + Get(r.lighter_mid))

\* the spread of the two mids of r is 0.15 % exactly
SpreadAt(r) ==
    /\ r.aster_mid # None
    /\ r.lighter_mid # None
    /\ Abs(Get(r.aster_mid) - Get(r.lighter_mid)) * 20000
          = 15 * (Get(r.aster_mid) + Get(r.lighter_mid))

\* C15: a result with both rates whose spread is strictly above max_spread_pct
\* is unavailable with excluded reason "spread" and its symbol is not opened in
\* the pass; with a spread at or below max_spread_pct (equality included) it
\* is not excluded for spread.
C15_SpreadRejection ==
    \A r \in Gathered :
        (r.aster_rate # None /\ r.lighter_rate # None)
        => /\ SpreadOver(r)
                => /\ ~r.available
                   /\ r.excluded_reason = "spread"
                   /\ ~(pc = "open" /\ best = r.symbol)
           /\ ~SpreadOver(r) => r.excluded_reason # "spread"

\* one symbol is excluded for its spread and the other, whose spread is at the
\* limit exactly, is opened
C15_Witness ==
    /\ pc = "open"
    /\ \E r \in Gathered : r.excluded_reason = "spread" /\ SpreadOver(r)
    /\ \E r \in Gathered : r.symbol = best /\ SpreadAt(r) /\ r.available

\* C16: an available result has net_apr = |apr_A - apr_L| with
\* apr_A = rate_A * 6 * 365 * 100 and apr_L = rate_L * 3 * 365 * 100; it is long
\* Lighter and short Aster when apr_A > apr_L, long Aster and short Lighter when
\* apr_L > apr_A, and net_apr is never negative.
C16_NetAprAndDirection ==
    \A r \in Gathered :
        r.available =>
            LET apr_a == Get(r.aster_rate) * 6 * 365 * 100
                apr_l == Get(r.lighter_rate) * 3 * 365 * 100
            IN  /\ Get(r.net_apr) = Abs(apr_a - apr_l)
                /\ Get(r.net_apr) >= 0
                /\ apr_a > apr_l => r.long_exch = "Lighter" /\ r.short_exch = "Aster"
                /\ apr_l > apr_a => r.long_exch = "Aster" /\ r.short_exch = "Lighter"

\* a pass with one result in each direction, both with a positive net_apr
C16_Witness ==
    /\ \E r \in Gathered : r.available /\ r.long_exch = "Lighter" /\ Get(r.net_apr) > 0
    /\ \E r \in Gathered : r.available /\ r.long_exch = "Aster" /\ Get(r.net_apr) > 0

\* the available results of the pass that reach min_net_apr_threshold (5 %)
Eligible == {r \in Gathered : r.available /\ Get(r.net_apr) >= 5000000}

\* C17: after a scan, the symbol the engine opens is an available result with
\* the largest net_apr of all available results and with net_apr >= the
\* threshold; when no available result reaches the threshold the engine goes
\* to WAITING and opens nothing.
C17_Selection ==
    /\ pc = "open" =>
          /\ state = "OPENING"
          /\ \E r \in Eligible :
                /\ r.symbol = best
                /\ \A o \in Gathered : o.available => Get(o.net_apr) <= Get(r.net_apr)
    /\ pc = "wait_sleep" => Eligible = {} /\ state = "WAITING" /\ best = "None"
    /\ (pc \in {"open", "wait_sleep"} /\ Eligible = {}) => pc = "wait_sleep"
    /\ (pc \in {"open", "wait_sleep"} /\ Eligible # {}) => pc = "open"

\* two available results above the threshold with different net_apr: the
\* second symbol in the list, which has the larger one, is opened
C17_Witness ==
    /\ pc = "open"
    /\ best = symbols_to_monitor[2]
    /\ Cardinality(Eligible) = 2
    /\ \E r \in Eligible : r.symbol # best /\ Get(r.net_apr) < Get(scan_results[best].net_apr)

----------------------------------------------------------------------------
\* Properties of the open's sizing

\* the sizing of the running open failed on its size
SizeTooSmall == open_order.error \in {"zero", "too_small"}

\* the larger of the two amount ticks of the running open
MaxTick == IF open_order.l_tick > open_order.a_tick THEN open_order.l_tick
           ELSE open_order.a_tick

\* C18: an open whose sizing fails has placed no order and the engine goes from
\* it to ERROR; otherwise the size_base given to both legs is the same, an exact
\* multiple of max(tick_A, tick_L), > 0 and >= 10 * max(tick_A, tick_L).
C18_OpenSizing ==
    [][/\ SizeTooSmall' => /\ pc' = "open_failed"
                           /\ open_order'.aster_qty = 0
                           /\ open_order'.lighter_qty = 0
       /\ (SizeTooSmall /\ pc' \notin {"open_failed", "stopped", "shutdown_save"})
             => state' = "ERROR" /\ pc' = "open_err_record"
       /\ (open_order'.aster_qty # 0 \/ open_order'.lighter_qty # 0 \/ pc' = "open_orders")
             => /\ open_order'.size_base % MaxTick' = 0
                /\ open_order'.size_base > 0
                /\ open_order'.size_base >= 10 * MaxTick'
       /\ (open_order'.aster_qty # 0 \/ open_order'.lighter_qty # 0)
             => /\ open_order'.aster_qty = open_order'.size_base
                /\ open_order'.lighter_qty = open_order'.size_base]_vars

\* both legs were given 0.033 of a quote of 100 at a mid of 3000, rounded down
\* from 0.0333 to the coarser tick 0.001 of ticks 0.0001 and 0.001
C18_Witness ==
    /\ pc = "open_verify"
    /\ open_order.avg_mid = 3000
    /\ open_order.l_tick = 1
    /\ open_order.a_tick = 10
    /\ open_order.aster_qty = 330
    /\ open_order.lighter_qty = 330

\* the open is called with notional 100, average mid 50000 and the amount tick
\* t (in 0.0001 base units) on both venues
HappyInputs(t) ==
    /\ open_order.notional = 100
    /\ open_order.avg_mid = 50000
    /\ open_order.l_tick = t
    /\ open_order.a_tick = t

\* C19, as stated: with notional 100, average mid 50000 and amount tick 0.001 on
\* both venues the open computes size_base 0.002 and goes on to place its orders.
C19_HappyPathTick001 ==
    HappyInputs(10) => open_order.size_base = 20 /\ pc \in {"open_orders", "open_verify"}

\* C19, amended: with notional 100, average mid 50000 and amount tick 0.0001 on
\* both venues the open computes size_base 0.002, gives it to both legs, and
\* with both orders accepted stores it in the position it holds.
C19_HappyPath ==
    [][/\ HappyInputs(1)' =>
             /\ open_order'.size_base = 20
             /\ open_order'.error = "none"
             /\ pc' \in {"open_orders", "open_verify", "open_failed"}
             /\ pc' \in {"open_verify", "open_failed"} =>
                   open_order'.aster_qty = 20 /\ open_order'.lighter_qty = 20
       /\ (HappyInputs(1) /\ pc = "open_verify" /\ pc' = "loop")
             => /\ state' = "HOLDING"
                /\ current_position'.size_base = 20
                /\ current_position'.avg_mid = 50000]_vars

\* the position of 0.002 at 50000 was held, its timer expired and both legs are
\* closed: the cycle is about to be recorded as a success
C19_Witness ==
    /\ pc = "close_returned"
    /\ close_reason = "timer"
    /\ current_position.size_base = 20
    /\ current_position.avg_mid = 50000
    /\ aster_closed
    /\ lighter_closed

----------------------------------------------------------------------------
\* Properties of the recovery's resume

\* the average of the two absolute sizes recovery has read
ObservedAverage == (Abs(aster_size) + Abs(lighter_size)) \div 2

\* the observed average is off the stored size_base by more than 0.001 units
\* and by more than 0.1 % of it
Differs ==
    LET diff == Abs(ObservedAverage - current_position.size_base)
    IN  diff > 10 /\ diff * 1000 > current_position.size_base

----------------------------------------------------------------------------
\* Properties of the process's end

\* C21, as stated: whenever a termination signal ends the process (any end but
\* the one after a fatal error), the persisted state is SHUTDOWN, the exit code
\* is 0, and current_position and completed_cycles are what they were.
C21_SignalShutsDown ==
    [][(pc \notin {"stopped", "exited", "fatal_record", "fatal_exit"}
          /\ pc' \in {"stopped", "exited"})
       => /\ exit_code' = 0
          /\ state_file'.kind = "json"
          /\ state_file'.state = "SHUTDOWN"
          /\ state_file'.current_position = current_position
          /\ state_file'.completed_cycles = completed_cycles]_vars

\* C22, as stated: when the process exits after an exception that left
\* main_loop, last_error is set, the state is ERROR, both are in the state file,
\* and the exit code is 1.
C22_FatalRecorded ==
    [][(pc = "fatal_exit" /\ pc' = "exited")
       => /\ exit_code' = 1
          /\ state = "ERROR"
          /\ last_error
          /\ state_file'.kind = "json"
          /\ state_file'.state = "ERROR"
          /\ state_file'.last_error]_vars

----------------------------------------------------------------------------
\* Properties of the engine's waits

\* C23, as stated: the run has slept at least 300 s in state ERROR, the 60 s of
\* the ERROR branch included, whenever it goes from ERROR to IDLE.
C23_ErrorBackoff ==
    [][(state = "ERROR" /\ state' = "IDLE" /\ pc = "loop" /\ pc' = "loop")
       => error_slept + error_branch_sleep >= 300]_vars

\* C24, as stated: while the engine sleeps the cooldown that follows a
\* successful close, by timer or by stop-loss, the state is WAITING.
C24_CooldownWaiting == pc = "cooldown" => state = "WAITING"

----------------------------------------------------------------------------
\* Properties of the cycle records

\* the venue whose PnL reading is the lowest of the readings that were made
WorstLegIs(venue, a_pnl, l_pnl) ==
    \/ /\ venue = "Aster"
       /\ a_pnl.available
       /\ l_pnl.available => a_pnl.value <= l_pnl.value
    \/ /\ venue = "Lighter"
       /\ l_pnl.available
       /\ a_pnl.available => l_pnl.value < a_pnl.value

LegPnl(venue, a_pnl, l_pnl) == IF venue = "Aster" THEN a_pnl.value ELSE l_pnl.value

ClosePcs == {"close", "close_orders", "close_verify", "close_returned"}

\* C25: a close that returned appends exactly one cycle record, with status
\* "stop-loss" after a stop-loss close and "success" after a timer close; the
\* stop-loss record carries the PnL of the worst leg, that PnL as a percentage of
\* the position value, and the venue of the worst leg; the position is cleared
\* in the same step, and the write that follows it carries the record and the
\* null position together.
C25_CycleRecorded ==
    [][/\ (pc = "loop" /\ pc' = "close" /\ close_reason' = "stop-loss")
          => /\ WorstLegIs(worst_pnl'.exchange, aster_pnl', lighter_pnl')
             /\ worst_pnl'.value = LegPnl(worst_pnl'.exchange, aster_pnl', lighter_pnl')
       /\ (pc \in ClosePcs /\ pc' \in ClosePcs) => worst_pnl' = worst_pnl
       /\ (pc = "close_returned" /\ pc' = "cooldown")
          => LET n == Len(completed_cycles)
                 rec == completed_cycles'[n + 1]
                 q == PositionValue(current_position) \div 100
             IN  /\ Len(completed_cycles') = n + 1
                 /\ SubSeq(completed_cycles', 1, n) = completed_cycles
                 /\ current_position' = NoPosition
                 /\ save_pc' = "open"
                 /\ IF close_reason = "stop-loss"
                    THEN /\ rec.status = "stop-loss"
                         /\ rec.worst_exchange = worst_pnl.exchange
                         /\ rec.pnl_at_close = Pnl(worst_pnl.value)
                         /\ rec.pnl_pct_at_close.available
                         /\ rec.pnl_pct_at_close.value * q <= worst_pnl.value * 100
                         /\ worst_pnl.value * 100 < (rec.pnl_pct_at_close.value + 1) * q
                    ELSE /\ close_reason = "timer"
                         /\ rec.status = "success"
       /\ (pc = "cooldown" /\ state_file' # state_file /\ state_file'.kind = "json")
          => /\ state_file'.current_position = NoPosition
             /\ state_file'.completed_cycles = completed_cycles]_vars

\* a stop-loss cycle whose worst leg was on Lighter is in the state file, and the
\* file has no position
C25_Witness ==
    /\ pc = "cooldown"
    /\ completed_cycles # <<>>
    /\ completed_cycles[Len(completed_cycles)].status = "stop-loss"
    /\ completed_cycles[Len(completed_cycles)].worst_exchange = "Lighter"
    /\ completed_cycles[Len(completed_cycles)].pnl_at_close = Pnl(-250000)
    /\ completed_cycles[Len(completed_cycles)].pnl_pct_at_close = Pnl(-2500)
    /\ state_file.kind = "json"
    /\ state_file.completed_cycles = completed_cycles
    /\ state_file.current_position = NoPosition

----------------------------------------------------------------------------
\* Properties of the hold timer

\* the process has ended, by a signal or by its own exit
Ended == pc \in {"stopped", "exited", "shutdown_save", "shutdown_exit"}

\* C26: an iteration that finds a held position at or past target_close_at sets
\* CLOSING and calls the close with no PnL read in between; and every held
\* position of a process that keeps running reaches CLOSING.
C26_HoldExpiry ==
    /\ [][(pc = "loop" /\ save_pc = "none" /\ state = "HOLDING"
             /\ current_position # NoPosition /\ time_left = 0 /\ ~Ended')
          => /\ state' = "CLOSING"
             /\ pc' = "close"
             /\ close_reason' = "timer"
             /\ aster_pnl' = NoPnl /\ lighter_pnl' = NoPnl /\ worst_pnl' = NoWorst]_vars
    /\ (state = "HOLDING" /\ current_position # NoPosition
          /\ pc \in {"loop", "refresh", "check_sleep"})
          ~> (state = "CLOSING" \/ Ended)

\* the timer of a held position has expired and the close is being made
C26_Witness ==
    /\ pc = "close"
    /\ state = "CLOSING"
    /\ close_reason = "timer"
    /\ current_position # NoPosition
    /\ time_left = 0

----------------------------------------------------------------------------
\* Properties of the open and close calls

\* C27, as stated: when open_delta_neutral_position or close_delta_neutral_position
\* is left, by a return or by a raise, the signer and the API client it created
\* are closed.
C27_HandlesReleased ==
    pc \in {"open_done", "close_done", "open_raised", "close_raised"}
        => signer = "closed" /\ api_client = "closed"

\* C29: the two order tasks of an open are started together, so that either may
\* end first; the open goes on only when both have ended, and it returns iff
\* both ended without an exception; main_loop stores a position only after such
\* a return.
C29_TwoLegOpen ==
    [][/\ (pc # "open_gather" /\ pc' = "open_gather")
          => legs'.aster = "pending" /\ legs'.lighter = "pending"
       /\ (pc = "open_gather" /\ pc' \in {"open_check", "open_raised"})
          => /\ legs.aster \in {"ok", "failed"}
             /\ legs.lighter \in {"ok", "failed"}
             /\ pc' = "open_check" <=> (legs.aster = "ok" /\ legs.lighter = "ok")
       /\ (pc = "open_check" /\ pc' = "open_done") => open_result = "both"
       /\ (pc = "open_done" /\ pc' = "open_verify") => open_result = "both"
       /\ (pc \in LoopPcs \cup CallPcs /\ pc' \in LoopPcs
             /\ current_position = NoPosition /\ current_position' # NoPosition)
          => pc = "open_verify" /\ open_result = "both"]_vars

\* the Lighter order has ended while the Aster order is still pending
C29_Witness ==
    /\ pc = "open_gather"
    /\ legs.lighter = "ok"
    /\ legs.aster = "pending"
    /\ current_position = NoPosition

\* C30, as stated: the close reads the open size of both venues and submits, for
\* each venue, a closing order iff the absolute live size is above the venue's
\* amount tick; its size is the absolute live size and its side is opposite to
\* the sign; the size_base of the stored position plays no part.
C30_CloseLiveSizes ==
    pc \in {"close_gather", "close_check"}
        => /\ (\E t \in close_tasks : t.venue = "Lighter") <=> Abs(lighter_size) > l_amount_tick
           /\ (\E t \in close_tasks : t.venue = "Aster") <=> Abs(aster_size) > PosEps
           /\ \A t \in close_tasks :
                 /\ t.venue = "Lighter"
                      => /\ t.size = Abs(lighter_size)
                         /\ t.side = IF lighter_size > 0 THEN "sell" ELSE "buy"
                 /\ t.venue = "Aster"
                      => /\ t.size = Abs(aster_size)
                         /\ t.side = IF aster_size > 0 THEN "SELL" ELSE "BUY"

----------------------------------------------------------------------------
\* Properties of the retries of save

\* a step of save that is the catch of an exception
Caught ==
    /\ pc' = pc
    /\ save_pc \in {"open", "write", "replace"}
    /\ save_pc' \in {"open", "none"}
    /\ temp_file' = temp_file

\* C28: save makes at most 3 write attempts; an exception that is the busy error
\* is followed, while attempts remain, by a sleep longer than the ones before and
\* by another attempt; any other exception, and the one of the last attempt, ends
\* save with the file as it was and the caller going on; an attempt that gets to
\* the replace ends save with the file written.
C28_PersistRetry ==
    [][/\ attempt' <= MaxSaveRetries - 1
       /\ Len(save_sleeps') = attempt'
       /\ Caught
          => IF save_error' = "busy" /\ attempt < MaxSaveRetries - 1
             THEN /\ save_pc' = "open"
                  /\ attempt' = attempt + 1
                  /\ \A i \in 1..Len(save_sleeps) :
                        save_sleeps'[i] = save_sleeps[i]
                        /\ save_sleeps[i] < save_sleeps'[Len(save_sleeps')]
                  /\ save_sleeps'[Len(save_sleeps')] > 0
             ELSE /\ save_pc' = "none"
                  /\ save_error' # "none"
                  /\ state_file' = state_file
       /\ (save_pc = "replace" /\ temp_file = "complete" /\ temp_file' = "none")
          => save_pc' = "none" /\ state_file' = Snapshot]_vars

\* the third attempt of a save wrote the file, after two busy errors and two sleeps
C28_Witness ==
    /\ save_pc = "none"
    /\ attempt = MaxSaveRetries - 1
    /\ save_sleeps = <<1, 2>>
    /\ save_error = "busy"
    /\ temp_file = "none"
    /\ state_file = Snapshot
    /\ state = "ERROR"

----------------------------------------------------------------------------
\* Properties of the monitor iterations

\* C31: a step of a HOLDING iteration that starts no close leaves the state
\* HOLDING and every key of current_position but last_table_refresh as it was,
\* and builds no order.
C31_MonitorFrame ==
    [][(/\ pc \in {"loop", "refresh", "check_sleep"}
        /\ pc' \in {"loop", "refresh", "check_sleep"}
        /\ state = "HOLDING"
        /\ current_position # NoPosition)
       => /\ state' = "HOLDING"
          /\ DOMAIN current_position \subseteq DOMAIN current_position'
          /\ DOMAIN current_position' \subseteq DOMAIN current_position \cup {"last_table_refresh"}
          /\ \A f \in DOMAIN current_position \ {"last_table_refresh"} :
                current_position'[f] = current_position[f]
          /\ close_orders' = close_orders
          /\ open_result' = open_result
          /\ completed_cycles' = completed_cycles]_vars

\* a refresh stamped the held position and the stamped position is in the file
C31_Witness ==
    /\ pc = "check_sleep"
    /\ state = "HOLDING"
    /\ "last_table_refresh" \in DOMAIN current_position
    /\ current_position.size_base = 20
    /\ current_position.symbol = "BTCUSDT"
    /\ state_file.kind = "json"
    /\ state_file.current_position = current_position

----------------------------------------------------------------------------
\* Properties of the scanner pass

\* the symbols whose fetch failed: a rate is missing or the fetch timed out
FailedSymbols(results) ==
    {s \in DOMAIN results : results[s].excluded_reason \in {"missing", "timeout"}}

\* C32: in a scanner pass a symbol whose fetch fails (a missing rate after an
\* error or exhausted rate-limit retries, or the timeout) is the only one made
\* unavailable by it: the results gathered for the other symbols stay as they
\* are, the pass ends in the selection, which opens the best remaining
\* candidate or waits, and the state never becomes ERROR on the way
C32_ScanIsolation ==
    [][pc = "scan" =>
          /\ pc' \in {"scan", "wait_sleep", "open"}
          /\ state' # "ERROR"
          /\ \A x \in DOMAIN scan_results :
                x \in DOMAIN scan_results' /\ scan_results'[x] = scan_results[x]
          /\ pc' = "scan" =>
                /\ state' = state
                /\ Cardinality(DOMAIN scan_results' \ DOMAIN scan_results) <= 1
                /\ \A s \in FailedSymbols(scan_results') : ~scan_results'[s].available
          /\ pc' # "scan" =>
                /\ DOMAIN scan_results = Symbols
                /\ state' \in {"WAITING", "OPENING"}
                /\ LET others == {s \in Symbols \ FailedSymbols(scan_results) :
                                    /\ scan_results[s].available
                                    /\ Get(scan_results[s].net_apr) >= min_net_apr_threshold}
                   IN  /\ (others # {}) = (pc' = "open")
                       /\ pc' = "open" =>
                             /\ best' \in others
                             /\ \A s \in others : Get(scan_results[s].net_apr)
                                                    <= Get(scan_results[best'].net_apr)]_vars

\* one symbol timed out and the other was selected for the open
C32_Witness ==
    /\ pc = "open"
    /\ state = "OPENING"
    /\ DOMAIN scan_results = Symbols
    /\ \E s \in Symbols : scan_results[s].excluded_reason = "timeout" /\ best # s
    /\ best \in Symbols /\ scan_results[best].available

\* the coroutines of symbol s were all ended by one step
Cancelled(s) ==
    /\ \E k \in FetchKinds : fetch_pc[<<s, k>>] # "done"
    /\ \A k \in FetchKinds : fetch_pc'[<<s, k>>] = "done"

----------------------------------------------------------------------------
\* Properties of the cycle statistics

\* the records of a list with the given status
WithStatus(cycles, status) == Len(SelectSeq(cycles, LAMBDA r : r.status = status))

\* the counters agree with the list of records
StatsAgree(stats, cycles) ==
    /\ stats.total_cycles = Len(cycles)
    /\ stats.total_cycles = stats.successful_cycles + stats.failed_cycles
    /\ stats.successful_cycles = WithStatus(cycles, "success")
    /\ stats.failed_cycles = WithStatus(cycles, "stop-loss")

\* C34: from the default state on, in memory and in the state file,
\* total_cycles is the length of completed_cycles and the sum of
\* successful_cycles and failed_cycles, successful_cycles counts the records
\* with status success and failed_cycles those with status stop-loss; while
\* the process lives, and in the file, completed_cycles only grows at its end
C34_CycleStatistics ==
    /\ [](/\ StatsAgree(cumulative_stats, completed_cycles)
          /\ StatsAgree(state_file.cumulative_stats, state_file.completed_cycles))
    /\ [][/\ pc' \notin {"stopped", "exited"} =>
                /\ Len(completed_cycles') >= Len(completed_cycles)
                /\ SubSeq(completed_cycles', 1, Len(completed_cycles)) = completed_cycles
          /\ Len(state_file'.completed_cycles) >= Len(state_file.completed_cycles)
          /\ SubSeq(state_file'.completed_cycles, 1, Len(state_file.completed_cycles))
                = state_file.completed_cycles]_vars

\* a cycle closed by the timer and one closed by the stop-loss are recorded and
\* counted, in memory and in the file
C34_Witness ==
    /\ Len(completed_cycles) = 2
    /\ WithStatus(completed_cycles, "success") = 1
    /\ WithStatus(completed_cycles, "stop-loss") = 1
    /\ cumulative_stats.total_cycles = 2
    /\ cumulative_stats.failed_cycles = 1
    /\ state_file.completed_cycles = completed_cycles
    /\ state_file.cumulative_stats = cumulative_stats

----------------------------------------------------------------------------
\* Properties of the stop-loss decision

\* C35, as stated: a monitor iteration that starts a stop-loss close decided on
\* a worst-leg PnL below zero
C35_StopLossOnLoss ==
    [][pc = "loop" /\ pc' = "close" /\ close_reason' = "stop-loss"
          => worst_pnl'.available /\ worst_pnl'.value < 0]_vars

----------------------------------------------------------------------------
\* Properties of the startup recovery under failures

\* C37, as stated: the recovery clears the persisted position only when both
\* venues answered with sizes that are not a valid hedge; when a query fails the
\* position is retained
C37_RecoveryRetainsOnFailure ==
    [][pc = "rec_read" =>
          /\ current_position' = NoPosition =>
                ~query_failed /\ ~IsValidHedge(aster_size, lighter_size)
          /\ query_failed => current_position' = current_position]_vars

----------------------------------------------------------------------------
\* Properties of a crash during the open

\* C36, as stated: the engine dispatches no opening orders while legs of an
\* open whose position was never stored (the process was killed between the
\* gather and the store, the state file says OPENING with no position) are live
C36_NoOpenOverLiveLegs ==
    [][pc = "open_orders" /\ pc' \in {"open_verify", "open_failed"}
          => unrecorded_legs = {}]_vars

----------------------------------------------------------------------------
\* Properties of the supervisor loop

\* the HOLDING branch has run on the held position: the PnL was read, or the
\* close was started
HoldingIteration == current_position # NoPosition /\ pc \in {"refresh", "close"}

\* C38: a process that keeps running, at its start or at the head of its loop
\* with any state value (one of BotState or an unrecognized string), reaches
\* the start of a scanner pass (ANALYZING) or an iteration of the HOLDING
\* branch on a held position
C38_SupervisorProgress ==
    (pc \in {"start", "loop"}) ~> ((pc = "scan" /\ state = "ANALYZING") \/ HoldingIteration \/ Ended)

\* a process started on a state value that BotState does not have has begun a
\* scanner pass
C38_Witness ==
    /\ state_file.state = "PAUSED"
    /\ run = 1
    /\ pc = "scan"
    /\ state = "ANALYZING"

----------------------------------------------------------------------------
\* Properties of the emergency closer

\* a position of each venue, of one symbol, with sizes of strictly opposite sign
Paired(a, l) ==
    /\ a.symbol = l.symbol \o "USDT"
    /\ (a.size > 0 /\ l.size < 0) \/ (a.size < 0 /\ l.size > 0)

\* C39: every close order of the emergency closer is sent after the operator
\* confirmed with ENTER and closes a position that the scan found paired with a
\* position of the same symbol and strictly opposite sign on the other venue; a
\* position without such a partner gets no order; without a matched pair, and
\* when the operator cancels, no order is sent
C39_EmergencyCloser ==
    /\ \A o \in orders_sent :
          /\ confirmation = "enter"
          /\ \E a \in positions.aster, l \in positions.lighter :
                /\ Paired(a, l)
                /\ o.symbol = a.symbol
                /\ o.venue = "Aster" => o.size = Abs(a.size)
                                        /\ o.side = IF a.size > 0 THEN "SELL" ELSE "BUY"
                /\ o.venue = "Lighter" => o.size = Abs(l.size)
                                          /\ o.side = IF l.size > 0 THEN "sell" ELSE "buy"
    /\ \A a \in positions.aster :
          (\A l \in positions.lighter : ~Paired(a, l)) =>
             ~\E o \in orders_sent : o.venue = "Aster" /\ o.symbol = a.symbol
    /\ \A l \in positions.lighter :
          (\A a \in positions.aster : ~Paired(a, l)) =>
             ~\E o \in orders_sent : o.venue = "Lighter" /\ o.symbol = l.symbol \o "USDT"
    /\ (matched_pairs = {} \/ confirmation # "enter") => orders_sent = {}

\* the closer ran to its end: the pair of one symbol got both its orders while
\* the two same-signed positions of the other symbol got none
C39_Witness ==
    /\ exit_pc = "complete"
    /\ confirmation = "enter"
    /\ \E a \in positions.aster, l \in positions.lighter :
          /\ a.symbol = "ETHUSDT" /\ l.symbol = "ETH" /\ a.size = 20 /\ l.size = 20
    /\ {o.venue : o \in {x \in orders_sent : x.symbol = "BTCUSDT"}} = {"Aster", "Lighter"}
    /\ ~\E o \in orders_sent : o.symbol = "ETHUSDT"

====
